---------------------------- MODULE Spec2Model ----------------------------
(***************************************************************************)
(* Reconciliation engine of RECHERCHE_PROSUMA: the composite-key diff      *)
(* (apps/comparisons/services.py) and the upload -> choose_columns ->      *)
(* run_with_session workflow with its Run ledger (apps/*/views.py).        *)
(***************************************************************************)
EXTENDS Integers, Sequences, FiniteSets, TLC

(***************************************************************************)
(* Tables.  A DataFrame is [columns : sequence of names, rows : sequence   *)
(* of functions from the column names to cells].  Every cell is a string   *)
(* (the readers use dtype=str) or NaN, what pandas stores for an empty     *)
(* cell.                                                                   *)
(***************************************************************************)
NaN == "<NaN>"

SeqToSet(s) == {s[i] : i \in DOMAIN s}

\* df[cols] raises KeyError unless every name of cols is a column of df
HasColumns(df, cols) == SeqToSet(cols) \subseteq SeqToSet(df.columns)

\* df[cols].copy()
Project(df, cols) ==
    [columns |-> cols,
     rows    |-> [i \in DOMAIN df.rows |-> [c \in SeqToSet(cols) |-> df.rows[i][c]]]]

\* compat old: str -> list (a stored key is always a list in this model)
KeyList(k) == k

\* cfg.join_type or "outer"
How(cfg) == IF cfg.join_type = "" THEN "outer" ELSE cfg.join_type

\* faulty variant of KeysMatch: one agreeing position pairs the rows
KeysMatchAny(l, r, k1, k2) == \E p \in DOMAIN k1 : l[k1[p]] = r[k2[p]]

\* pandas compares the key tuples position by position; NaN keys pair with
\* NaN keys
KeysMatch(l, r, k1, k2) == \A p \in DOMAIN k1 : l[k1[p]] = r[k2[p]]

\* A right key column named like the left key column of the same position
\* is merged into that single column
RightDropped(k1, k2) == {k2[p] : p \in {q \in DOMAIN k1 : k1[q] = k2[q]}}

\* suffixes=("_web1", "_desktop") are put on the names present on both sides
LeftName(c, cols2, k1, k2) ==
    IF c \in (SeqToSet(cols2) \ RightDropped(k1, k2)) THEN c \o "_web1" ELSE c
RightName(c, cols1) ==
    IF c \in SeqToSet(cols1) THEN c \o "_desktop" ELSE c

MergedColumns(cols1, cols2, k1, k2) ==
    {LeftName(c, cols2, k1, k2) : c \in SeqToSet(cols1)}
      \cup {RightName(c, cols1) : c \in SeqToSet(cols2) \ RightDropped(k1, k2)}
      \cup {"_merge"}

\* One row of the merge.  i, j are the positions of the left and right input
\* rows (0: no row of that side); li, ri keep them beside the cells.
MergedRow(d1, d2, k1, k2, i, j) ==
    LET cols1 == d1.columns
        cols2 == d2.columns
        kept2 == SeqToSet(cols2) \ RightDropped(k1, k2)
        tag   == IF j = 0 THEN "left_only" ELSE IF i = 0 THEN "right_only" ELSE "both"
        LeftCell(c) ==
            IF i # 0 THEN d1.rows[i][c]
            ELSE IF \E p \in DOMAIN k1 : k1[p] = c /\ k2[p] = c THEN d2.rows[j][c]
            ELSE NaN
        RightCell(c) == IF j # 0 THEN d2.rows[j][c] ELSE NaN
        Value(n) ==
            IF n = "_merge" THEN tag
            ELSE IF \E c \in SeqToSet(cols1) : LeftName(c, cols2, k1, k2) = n
                 THEN LeftCell(CHOOSE c \in SeqToSet(cols1) : LeftName(c, cols2, k1, k2) = n)
                 ELSE RightCell(CHOOSE c \in kept2 : RightName(c, cols1) = n)
    IN  [li |-> i, ri |-> j,
         cells |-> [n \in MergedColumns(cols1, cols2, k1, k2) |-> Value(n)]]

Matches(d1, d2, k1, k2, i) ==
    {j \in DOMAIN d2.rows : KeysMatch(d1.rows[i], d2.rows[j], k1, k2)}
MatchesOfRight(d1, d2, k1, k2, j) ==
    {i \in DOMAIN d1.rows : KeysMatch(d1.rows[i], d2.rows[j], k1, k2)}

\* the elements of a set of naturals in increasing order
RECURSIVE Ascending(_)
Ascending(S) ==
    IF S = {} THEN <<>>
    ELSE LET m == CHOOSE x \in S : \A y \in S : x <= y
         IN  <<m>> \o Ascending(S \ {m})

RECURSIVE Flatten(_)
Flatten(ss) == IF ss = <<>> THEN <<>> ELSE Head(ss) \o Flatten(Tail(ss))

KeepsLeft(how)  == how \in {"left", "outer"}
\* faulty variant of KeepsRight: outer drops the unmatched right rows
KeepsRightOnly(how) == how = "right"
KeepsRight(how) == how \in {"right", "outer"}

\* pd.merge(df1, df2, left_on=k1, right_on=k2, how=..., indicator=True).
\* Rows come in left order (right order for how="right"), unmatched right
\* rows last; the row order pandas gives depends on its version and no
\* property below depends on it.
PdMerge(d1, d2, k1, k2, how) ==
    LET ByLeft(i) ==
            LET m == Matches(d1, d2, k1, k2, i)
            IN  IF m # {} THEN [x \in 1..Cardinality(m) |->
                                   MergedRow(d1, d2, k1, k2, i, Ascending(m)[x])]
                ELSE IF KeepsLeft(how) THEN <<MergedRow(d1, d2, k1, k2, i, 0)>>
                ELSE <<>>
        ByRight(j) ==
            LET m == MatchesOfRight(d1, d2, k1, k2, j)
            IN  IF m # {} THEN [x \in 1..Cardinality(m) |->
                                   MergedRow(d1, d2, k1, k2, Ascending(m)[x], j)]
                ELSE IF KeepsRight(how) THEN <<MergedRow(d1, d2, k1, k2, 0, j)>>
                ELSE <<>>
        RightOnly(j) ==
            IF MatchesOfRight(d1, d2, k1, k2, j) = {} /\ KeepsRight(how)
            THEN <<MergedRow(d1, d2, k1, k2, 0, j)>> ELSE <<>>
    IN  IF how = "right"
        THEN Flatten([j \in DOMAIN d2.rows |-> ByRight(j)])
        ELSE Flatten([i \in DOMAIN d1.rows |-> ByLeft(i)])
               \o Flatten([j \in DOMAIN d2.rows |-> RightOnly(j)])

\* (set(cfg.columns_web1) - set(k1)) & (set(cfg.columns_desktop) - set(k2))
Commons(cfg) ==
    (SeqToSet(cfg.columns_web1) \ SeqToSet(KeyList(cfg.join_key_web1)))
      \cap (SeqToSet(cfg.columns_desktop) \ SeqToSet(KeyList(cfg.join_key_desktop)))

\* Series != Series, element by element: NaN differs from everything,
\* NaN included
SeriesNe(a, b) == a = NaN \/ b = NaN \/ a # b

\* mask_values, for one row of merged
MaskValues(row, cfg) ==
    \E c \in Commons(cfg) :
        /\ (c \o "_web1") \in DOMAIN row.cells
        /\ (c \o "_desktop") \in DOMAIN row.cells
        /\ SeriesNe(row.cells[c \o "_web1"], row.cells[c \o "_desktop"])

\* faulty variant of MaskSide: the comparison inverted
MaskSideBoth(row) == row.cells["_merge"] = "both"

\* mask_side, for one row of merged
MaskSide(row) == row.cells["_merge"] # "both"

KeepRow(row, cfg) == MaskSide(row) \/ MaskValues(row, cfg)

RECURSIVE FilterRows(_, _)
FilterRows(rows, cfg) ==
    IF rows = <<>> THEN <<>>
    ELSE IF KeepRow(Head(rows), cfg)
         THEN <<Head(rows)>> \o FilterRows(Tail(rows), cfg)
         ELSE FilterRows(Tail(rows), cfg)

\* What a call returns or raises: error is "" when it returned
Returned(rows) == [error |-> "", rows |-> rows]
Raised(e)      == [error |-> e, rows |-> <<>>]

\* the projections and the merge of compute_diff; KeyError when a
\* projected column or a key is not a column of its table
MergeOf(d1, d2, c) ==
    IF ~ (HasColumns(d1, c.columns_web1) /\ HasColumns(d2, c.columns_desktop))
    THEN Raised("KeyError")
    ELSE IF ~ (SeqToSet(KeyList(c.join_key_web1)) \subseteq SeqToSet(c.columns_web1)
               /\ SeqToSet(KeyList(c.join_key_desktop)) \subseteq SeqToSet(c.columns_desktop))
    THEN Raised("KeyError")
    ELSE Returned(PdMerge(Project(d1, c.columns_web1), Project(d2, c.columns_desktop),
                          KeyList(c.join_key_web1), KeyList(c.join_key_desktop), How(c)))

\* diff = merged[mask_side | mask_values]
DiffOf(m, c) == IF m.error # "" THEN m ELSE Returned(FilterRows(m.rows, c))

\* compute_diff(df1, df2, cfg)
compute_diff(d1, d2, c) == DiffOf(MergeOf(d1, d2, c), c)

(***************************************************************************)
(* Optional values (None of Python, NULL of the database) are sequences of *)
(* length 0 or 1.                                                          *)
(***************************************************************************)
None == <<>>
Some(x) == <<x>>

(***************************************************************************)
(* Files and readers.  A stored CSV file is its sequence of physical       *)
(* lines, each a sequence of cells.                                        *)
(***************************************************************************)
FileA == << <<"id", "name">>, <<"1", "A">>, <<"2", "B">> >>
FileB == << <<"id", "name">>, <<"1", "A">>, <<"3", "C">> >>

\* pd.read_csv(..., dtype=str, header=h) and df.columns = [str(c) ...]: line
\* h (0-based) names the columns, the lines after it are the rows; a file
\* with no line h raises
ReadTable(file, h) ==
    IF h + 1 > Len(file) THEN [error |-> "ParserError", columns |-> <<>>, rows |-> <<>>]
    ELSE LET cols == file[h + 1]
         IN  [error |-> "", columns |-> cols,
              rows |-> [i \in 1..(Len(file) - h - 1) |->
                          [c \in SeqToSet(cols) |->
                              file[h + 1 + i][CHOOSE x \in DOMAIN cols : cols[x] = c]]]]

AsFrame(t) == [columns |-> t.columns, rows |-> t.rows]
EmptyFrame == [columns |-> <<>>, rows |-> <<>>]

\* faulty variant of Dedup: nothing removed
DedupKeepAll(seq) == seq
\* _dedup(seq): first occurrences, in order
RECURSIVE Dedup(_)
Dedup(seq) ==
    IF seq = <<>> THEN <<>>
    ELSE LET init == Dedup(SubSeq(seq, 1, Len(seq) - 1))
             x == seq[Len(seq)]
         IN  IF x \in SeqToSet(init) THEN init ELSE Append(init, x)

\* faulty variant of MissingColumns: only the first missing name is reported
FirstMissingColumn(selected, headers) ==
    LET all == SelectSeq(selected, LAMBDA c : c \notin SeqToSet(headers))
    IN  IF all = <<>> THEN <<>> ELSE <<all[1]>>
\* validate_columns(selected, headers): the missing names, raised if any
MissingColumns(selected, headers) ==
    SelectSeq(selected, LAMBDA c : c \notin SeqToSet(headers))
ValidateColumnsRaises(selected, headers) == MissingColumns(selected, headers) # <<>>

\* what a helper returns or raises: error is "" when it returned, and value
\* is what it returned or what the exception carries
Result(error, value) == [error |-> error, value |-> value]

\* validate_columns as a call: ValueError carrying the list of the message
validate_columns(selected, headers) ==
    IF ValidateColumnsRaises(selected, headers)
    THEN Result("ValueError", MissingColumns(selected, headers))
    ELSE Result("", <<>>)

(***************************************************************************)
(* State.                                                                  *)
(*   df1 .. dpc : one call of compute_diff on its own (SpecDiff)           *)
(*   datasets, configs, runs, results : the tables of Dataset,             *)
(*       CompareConfig, CompareRun and CompareResult                       *)
(*   runSeq   : the last id given to a CompareRun (ids are not reused)     *)
(*   files    : the export files written under MEDIA_ROOT/exports          *)
(*   session  : the stored session of each user                            *)
(*   inv      : the run_with_session requests in progress, with the local  *)
(*              variables of each                                          *)
(*   ed       : the run_edit request in progress                           *)
(*   resp     : the last request answered: its view, its outcome and its   *)
(*              Run                                                        *)
(*   fn, args, ret : one call of a helper function on its own (SpecPure):  *)
(*              its name, its arguments and what it returned or raised     *)
(***************************************************************************)
VARIABLES df1, df2, cfg, merged, diff, dpc,
          datasets, configs, runs, results, runSeq, files, session, inv, ed, resp,
          fn, args, ret

diffVars == <<df1, df2, cfg, merged, diff, dpc>>
dbVars   == <<datasets, configs, runs, results, runSeq, files>>
appVars  == <<datasets, configs, runs, results, runSeq, files, session, inv, ed, resp>>
pureVars == <<fn, args, ret>>
vars     == <<df1, df2, cfg, merged, diff, dpc,
              datasets, configs, runs, results, runSeq, files, session, inv, ed, resp,
              fn, args, ret>>

\* ---- bounds of the inputs of compute_diff
MaxRows == 3
Vals == {"1", "2"}
Header == <<"id", "name">>
CellsOf(c) == IF c = "id" THEN Vals ELSE Vals \cup {NaN}

RowsOver(cols) == {r \in [SeqToSet(cols) -> Vals \cup {NaN}] : \A c \in SeqToSet(cols) : r[c] \in CellsOf(c)}
TablesOver(cols, n) ==
    {[columns |-> cols, rows |-> r] : r \in UNION {[1..k -> RowsOver(cols)] : k \in 0..n}}

MakeCfg(c1, c2, k1, k2, jt) ==
    [columns_web1 |-> c1, columns_desktop |-> c2,
     join_key_web1 |-> k1, join_key_desktop |-> k2, join_type |-> jt]

\* the key and column selections tried: single key, composite key, composite
\* key in crossed order, keys of different names, no common non-key column
Selections ==
    { <<Header, Header, <<"id">>, <<"id">> >>,
      <<Header, Header, <<"id", "name">>, <<"id", "name">> >>,
      <<Header, Header, <<"id", "name">>, <<"name", "id">> >>,
      <<Header, Header, <<"id">>, <<"name">> >>,
      <<Header, <<"id">>, <<"id">>, <<"id">> >> }

DiffConfigs == {MakeCfg(s[1], s[2], s[3], s[4], jt) : s \in Selections, jt \in {"", "outer", "inner", "left", "right"}}

\* the scenario of the specification, section 8
ScenarioLeft == AsFrame(ReadTable(FileA, 0))
ScenarioRight == AsFrame(ReadTable(FileB, 0))
ScenarioCfg == MakeCfg(Header, Header, <<"id">>, <<"id">>, "outer")

NoResult == Raised("none")

\* ---- the web application
Users == {"u1", "u2"}
Staff == {"u2"}
MaxUploads == 2
MaxRuns == 2
MaxSessionRuns == 1
HeaderRows == {0, 1}
DesktopHeaderRows == {0}
Procs == {1, 2}
Category == "cat"
ConfigName == "cfg"
EditMessages == {"", " note "}
PreviewRows == 10000

NoConfig == MakeCfg(<<>>, <<>>, <<>>, <<>>, "")
NoSession == [upload_context |-> None, config_id |-> None, last_export |-> None]
NoRun == [config |-> 0, dataset_web1 |-> 0, dataset_desktop |-> 0, status |-> "",
          total_rows |-> 0, diff_rows |-> 0, message |-> "", finished_at |-> None,
          export_csv |-> "", export_xlsx |-> ""]
IdleInv == [pc |-> "idle", user |-> "", sess |-> NoSession, cfg |-> NoConfig,
            df1 |-> EmptyFrame, df2 |-> EmptyFrame, run |-> 0, obj |-> NoRun,
            diff |-> <<>>, err |-> ""]
IdleEdit == [pc |-> "idle", user |-> "", run |-> 0, obj |-> NoRun, msg |-> ""]
Response(view, user, outcome, run) ==
    [view |-> view, user |-> user, outcome |-> outcome, run |-> run, exports |-> None,
     count |-> 0]
NoResponse == Response("", "", "", 0)

InitApp ==
    /\ datasets = <<>>
    /\ configs = <<>>
    /\ runs = <<>>
    /\ results = <<>>
    /\ runSeq = 0
    /\ files = {}
    /\ session = [u \in Users |-> NoSession]
    /\ inv = [p \in Procs |-> IdleInv]
    /\ ed = IdleEdit
    /\ resp = NoResponse

InitPureIdle == fn = "" /\ args = <<>> /\ ret = <<>>

InitDiffIdle ==
    /\ df1 = EmptyFrame /\ df2 = EmptyFrame /\ cfg = NoConfig
    /\ merged = NoResult /\ diff = NoResult /\ dpc = "idle"

InitDiff ==
    /\ \/ /\ df1 \in TablesOver(Header, MaxRows)
          /\ df2 \in TablesOver(Header, MaxRows)
          /\ Len(df1.rows) + Len(df2.rows) <= MaxRows
          /\ cfg \in DiffConfigs
       \/ /\ df1 = ScenarioLeft
          /\ df2 = ScenarioRight
          /\ cfg = ScenarioCfg
    /\ merged = NoResult
    /\ diff = NoResult
    /\ dpc = "call"
    /\ InitApp
    /\ InitPureIdle

\* compute_diff, lines 5-19
DiffMerge ==
    /\ dpc = "call"
    /\ merged' = MergeOf(df1, df2, cfg)
    /\ dpc' = "merged"
    /\ UNCHANGED <<df1, df2, cfg, diff>>
    /\ UNCHANGED <<appVars, pureVars>>

\* compute_diff, lines 21-39
DiffFilter ==
    /\ dpc = "merged"
    /\ diff' = DiffOf(merged, cfg)
    /\ dpc' = "returned"
    /\ UNCHANGED <<df1, df2, cfg, merged>>
    /\ UNCHANGED <<appVars, pureVars>>

NextDiff == DiffMerge \/ DiffFilter

SpecDiff == InitDiff /\ [][NextDiff]_vars

(***************************************************************************)
(* datasets.views.upload                                                   *)
(***************************************************************************)
HeaderRowsOf(ctx) ==
    IF ctx.header_rows = None THEN [web1 |-> 0, desktop |-> 0] ELSE ctx.header_rows[1]

\* POST of two CSV files by user u (lines 45-109); the headers kept are those
\* of line 0
Upload(u, f1, f2) ==
    /\ Len(datasets) < 2 * MaxUploads
    /\ ReadTable(f1, 0).error = "" /\ ReadTable(f2, 0).error = ""
    /\ LET head1 == ReadTable(f1, 0).columns
           head2 == ReadTable(f2, 0).columns
           id1 == Len(datasets) + 1
           id2 == Len(datasets) + 2
       IN  /\ datasets' = datasets \o
                 << [owner |-> u, source |-> "web1", file |-> f1, header |-> head1,
                     ext |-> ".csv", exists |-> TRUE],
                    [owner |-> u, source |-> "desktop", file |-> f2, header |-> head2,
                     ext |-> ".csv", exists |-> TRUE] >>
           /\ session' = [session EXCEPT ![u].upload_context =
                 Some([category_id |-> Category, dataset_web1_id |-> id1,
                       dataset_desktop_id |-> id2,
                       headers |-> [web1 |-> head1, desktop |-> head2],
                       header_rows |-> None])]
    /\ resp' = Response("upload", u, "redirect:choose_columns", 0)
    /\ UNCHANGED <<configs, runs, results, runSeq, files, inv, ed>>
    /\ UNCHANGED <<diffVars, pureVars>>

(***************************************************************************)
(* configs.views.choose_columns                                            *)
(***************************************************************************)
\* what the view has at line 113: the context, both datasets of the user and
\* both previews read with the posted header lines
CanChoose(u, h1, h2) ==
    /\ session[u].upload_context # None
    /\ LET ctx == session[u].upload_context[1]
       IN  /\ datasets[ctx.dataset_web1_id].owner = u
           /\ datasets[ctx.dataset_desktop_id].owner = u
           /\ ReadTable(datasets[ctx.dataset_web1_id].file, h1).error = ""
           /\ ReadTable(datasets[ctx.dataset_desktop_id].file, h2).error = ""

PreviewColumns(u, h1, h2) ==
    LET ctx == session[u].upload_context[1]
    IN  [web1 |-> ReadTable(datasets[ctx.dataset_web1_id].file, h1).columns,
         desktop |-> ReadTable(datasets[ctx.dataset_desktop_id].file, h2).columns]

\* ctx.get("headers") or the preview columns: upload always stores the
\* "headers" dict, so the names offered by a saving POST are the stored ones
FormHeaders(u, h1, h2) == session[u].upload_context[1].headers

\* form.is_valid(): every field is required and every choice is one offered
FormIsValid(hs, name, c1, c2, k1, k2, jt) ==
    /\ name # ""
    /\ c1 # <<>> /\ SeqToSet(c1) \subseteq SeqToSet(hs.web1)
    /\ c2 # <<>> /\ SeqToSet(c2) \subseteq SeqToSet(hs.desktop)
    /\ k1 # <<>> /\ SeqToSet(k1) \subseteq SeqToSet(hs.web1)
    /\ k2 # <<>> /\ SeqToSet(k2) \subseteq SeqToSet(hs.desktop)
    /\ jt \in {"outer", "inner", "left", "right"}

\* the forms a request may post over the offered names hs: the columns are
\* all names or the last name of each side; the keys are the first name of
\* each side, all names of each side, one name against all, or none
FirstOf(names) == IF names = <<>> THEN <<>> ELSE <<names[1]>>
LastOf(names)  == IF names = <<>> THEN <<>> ELSE <<names[Len(names)]>>
Forms(hs) ==
    {[c1 |-> c[1], c2 |-> c[2], k1 |-> k[1], k2 |-> k[2], jt |-> jt] :
        c \in {<<hs.web1, hs.desktop>>, <<LastOf(hs.web1), LastOf(hs.desktop)>>},
        k \in {<<FirstOf(hs.web1), FirstOf(hs.desktop)>>, <<hs.web1, hs.desktop>>,
               <<FirstOf(hs.web1), hs.desktop>>, <<<<>>, FirstOf(hs.desktop)>>},
        jt \in {"outer"}}

WithContext(u, h1, h2) ==
    [session[u] EXCEPT !.upload_context =
        Some([session[u].upload_context[1] EXCEPT
                 !.headers = PreviewColumns(u, h1, h2),
                 !.header_rows = Some([web1 |-> h1, desktop |-> h2])])]

\* POST action=apply_headers (lines 115-119, then the empty form)
ChooseColumnsApply(u, h1, h2) ==
    /\ CanChoose(u, h1, h2)
    /\ session' = [session EXCEPT ![u] = WithContext(u, h1, h2)]
    /\ resp' = Response("choose_columns", u, "render:form", 0)
    /\ UNCHANGED <<dbVars, inv, ed>>
    /\ UNCHANGED <<diffVars, pureVars>>

\* faulty variant of KeysRefused: the lengths are not compared
KeysRefusedEmptyOnly(k1, k2) == k1 = <<>> \/ k2 = <<>>

\* lines 187 and 198: the key lists a valid form is refused for
KeysRefused(k1, k2) == (k1 = <<>> \/ k2 = <<>>) \/ Len(k1) # Len(k2)

\* POST of a form that is not valid (line 172 false): rendered again
ChooseColumnsInvalid(u, h1, h2, c1, c2, k1, k2, jt) ==
    /\ CanChoose(u, h1, h2)
    /\ ~ FormIsValid(FormHeaders(u, h1, h2), ConfigName, c1, c2, k1, k2, jt)
    /\ resp' = Response("choose_columns", u, "render:form_errors", 0)
    /\ UNCHANGED <<dbVars, session, inv, ed>>
    /\ UNCHANGED <<diffVars, pureVars>>

\* POST of a valid form whose key lists are refused (lines 187-206): the
\* header lines are kept in the session, the form is rendered again
ChooseColumnsKeysRefused(u, h1, h2, c1, c2, k1, k2, jt) ==
    /\ CanChoose(u, h1, h2)
    /\ FormIsValid(FormHeaders(u, h1, h2), ConfigName, c1, c2, k1, k2, jt)
    /\ KeysRefused(k1, k2)
    /\ session' = [session EXCEPT ![u] = WithContext(u, h1, h2)]
    /\ resp' = Response("choose_columns", u, "render:key_errors", 0)
    /\ UNCHANGED <<dbVars, inv, ed>>
    /\ UNCHANGED <<diffVars, pureVars>>

\* POST of a valid form naming a column the previews do not have (lines
\* 209-212): ValueError leaves the view, the session is not saved
ChooseColumnsRaises(u, h1, h2, c1, c2, k1, k2, jt) ==
    /\ CanChoose(u, h1, h2)
    /\ FormIsValid(FormHeaders(u, h1, h2), ConfigName, c1, c2, k1, k2, jt)
    /\ ~ KeysRefused(k1, k2)
    /\ LET prev == PreviewColumns(u, h1, h2)
       IN  \/ ValidateColumnsRaises(c1, prev.web1)
           \/ ValidateColumnsRaises(c2, prev.desktop)
           \/ ValidateColumnsRaises(k1, prev.web1)
           \/ ValidateColumnsRaises(k2, prev.desktop)
    /\ resp' = Response("choose_columns", u, "500:ValueError", 0)
    /\ UNCHANGED <<dbVars, session, inv, ed>>
    /\ UNCHANGED <<diffVars, pureVars>>

ConfigOf(u) ==
    {c \in DOMAIN configs :
        /\ configs[c].owner = u
        /\ configs[c].category = Category
        /\ configs[c].name = ConfigName}

\* POST of a valid form (lines 169-231): update_or_create of the config of
\* (owner, category, name), config_id put in the session
ChooseColumnsSave(u, h1, h2, c1, c2, k1, k2, jt) ==
    /\ CanChoose(u, h1, h2)
    /\ FormIsValid(FormHeaders(u, h1, h2), ConfigName, c1, c2, k1, k2, jt)
    /\ ~ KeysRefused(k1, k2)
    /\ LET prev == PreviewColumns(u, h1, h2)
       IN  /\ ~ ValidateColumnsRaises(c1, prev.web1)
           /\ ~ ValidateColumnsRaises(c2, prev.desktop)
           /\ ~ ValidateColumnsRaises(k1, prev.web1)
           /\ ~ ValidateColumnsRaises(k2, prev.desktop)
    /\ LET row == [owner |-> u, category |-> Category, name |-> ConfigName,
                   columns_web1 |-> Dedup(c1 \o k1),
                   columns_desktop |-> Dedup(c2 \o k2),
                   join_key_web1 |-> k1, join_key_desktop |-> k2,
                   join_type |-> jt, is_active |-> TRUE]
           id == IF ConfigOf(u) = {} THEN Len(configs) + 1
                 ELSE CHOOSE c \in ConfigOf(u) : TRUE
       IN  /\ configs' = IF ConfigOf(u) = {} THEN Append(configs, row)
                         ELSE [configs EXCEPT ![id] = row]
           /\ session' = [session EXCEPT
                            ![u] = [WithContext(u, h1, h2) EXCEPT !.config_id = Some(id)]]
    /\ resp' = Response("choose_columns", u, "redirect:run_with_session", 0)
    /\ UNCHANGED <<datasets, runs, results, runSeq, files, inv, ed>>
    /\ UNCHANGED <<diffVars, pureVars>>

(***************************************************************************)
(* comparisons.views.run_with_session.  The request of worker p runs       *)
(* lines 125-154 in one step and then one step per database or file        *)
(* operation, so that other requests come in between.                      *)
(***************************************************************************)
Free(p) == inv[p].pc = "idle"

ExportUrl(id, ext) == "media/exports/" \o ToString(id) \o ext

\* diff.where(pd.notna(diff), "")
FillNa(rows) ==
    [x \in DOMAIN rows |->
        [rows[x] EXCEPT !.cells = [n \in DOMAIN rows[x].cells |->
            IF rows[x].cells[n] = NaN THEN "" ELSE rows[x].cells[n]]]]

\* faulty variant of Payload: every row of the diff, no head()
PayloadAll(rows) == [x \in 1..Len(rows) |-> rows[x].cells]

\* run.diff_rows = len(diff)
DiffRows(rows) == Len(rows)

\* diff.head(PreviewRows).to_dict(orient="records")
Payload(rows) ==
    [x \in 1..(IF Len(rows) < PreviewRows THEN Len(rows) ELSE PreviewRows) |-> rows[x].cells]

\* lines 125-129: no upload context or no config in the session
RwsMissingParams(p, u) ==
    /\ Free(p)
    /\ session[u].upload_context = None \/ session[u].config_id = None
    /\ resp' = Response("run_with_session", u, "redirect:upload", 0)
    /\ UNCHANGED <<dbVars, session, inv, ed>>
    /\ UNCHANGED <<diffVars, pureVars>>

\* faulty variant of HasParams: the owners are not looked at
HasParamsAnyOwner(u) ==
    /\ session[u].upload_context # None /\ session[u].config_id # None
    /\ session[u].config_id[1] \in DOMAIN configs

\* lines 131-138: the config and the datasets of the session, of this user
HasParams(u) ==
    /\ session[u].upload_context # None /\ session[u].config_id # None
    /\ LET ctx == session[u].upload_context[1]
       IN  /\ session[u].config_id[1] \in DOMAIN configs
           /\ configs[session[u].config_id[1]].owner = u
           /\ datasets[ctx.dataset_web1_id].owner = u
           /\ datasets[ctx.dataset_desktop_id].owner = u

\* faulty variant of _read_dataset_dataframe: the stored name is not looked at
ReadAnyFile(ds, h) == ReadTable(ds.file, h)

\* _read_dataset_dataframe(ds, header_row=h), lines 86-112: "missing" when the
\* storage has no file of that name, the CSV reader for .csv, ValueError for
\* an extension that is none of .csv, .xlsx, .xls
read_dataset_dataframe(ds, h) ==
    IF ~ds.exists THEN [error |-> "missing", columns |-> <<>>, rows |-> <<>>]
    ELSE IF ds.ext = ".csv" THEN ReadTable(ds.file, h)
    ELSE [error |-> "ValueError", columns |-> <<>>, rows |-> <<>>]

ReadWeb1(u) ==
    LET ctx == session[u].upload_context[1]
    IN  read_dataset_dataframe(datasets[ctx.dataset_web1_id], HeaderRowsOf(ctx).web1)
ReadDesktop(u) ==
    LET ctx == session[u].upload_context[1]
    IN  read_dataset_dataframe(datasets[ctx.dataset_desktop_id], HeaderRowsOf(ctx).desktop)

\* faulty variant of NewRunId: the last id given, once more
LastRunId(seq) == IF seq = 0 THEN seq + 1 ELSE seq

\* the primary key the database gives to a created Run: never given before
NewRunId(seq) == seq + 1

\* lines 131-133: the config or a dataset of the session is not one of this
\* user: get_object_or_404 answers 404
RwsNotFound(p, u) ==
    /\ Free(p)
    /\ session[u].upload_context # None /\ session[u].config_id # None
    /\ ~HasParams(u)
    /\ resp' = Response("run_with_session", u, "404", 0)
    /\ UNCHANGED <<dbVars, session, inv, ed>>
    /\ UNCHANGED <<diffVars, pureVars>>

\* lines 140-147: a dataset that cannot be read (file missing, extension not
\* supported, parser error): message and redirect to the upload page
RwsReadError(p, u) ==
    /\ Free(p)
    /\ HasParams(u)
    /\ ReadWeb1(u).error # "" \/ ReadDesktop(u).error # ""
    /\ resp' = Response("run_with_session", u, "redirect:upload", 0)
    /\ UNCHANGED <<dbVars, session, inv, ed>>
    /\ UNCHANGED <<diffVars, pureVars>>

\* lines 140-154: both datasets read, CompareRun.objects.create(status="running")
RwsCreate(p, u) ==
    /\ Free(p)
    /\ HasParams(u)
    /\ ReadWeb1(u).error = "" /\ ReadDesktop(u).error = ""
    /\ runSeq < MaxRuns
    /\ LET ctx == session[u].upload_context[1]
           id == NewRunId(runSeq)
           row == [NoRun EXCEPT !.config = session[u].config_id[1],
                                !.dataset_web1 = ctx.dataset_web1_id,
                                !.dataset_desktop = ctx.dataset_desktop_id,
                                !.status = "running"]
       IN  /\ runSeq' = id
           /\ runs' = [r \in DOMAIN runs \cup {id} |-> IF r = id THEN row ELSE runs[r]]
           /\ inv' = [inv EXCEPT ![p] =
                 [pc |-> "compute", user |-> u, sess |-> session[u],
                  cfg |-> configs[session[u].config_id[1]],
                  df1 |-> AsFrame(ReadWeb1(u)), df2 |-> AsFrame(ReadDesktop(u)),
                  run |-> id, obj |-> row, diff |-> <<>>, err |-> ""]]
    /\ UNCHANGED <<datasets, configs, results, files, session, ed, resp>>
    /\ UNCHANGED <<diffVars, pureVars>>

\* lines 157-169: compute_diff and the fields set on the Run in memory
RwsCompute(p) ==
    /\ inv[p].pc = "compute"
    /\ LET d == compute_diff(inv[p].df1, inv[p].df2, inv[p].cfg)
       IN  IF d.error # ""
           THEN inv' = [inv EXCEPT ![p].pc = "except", ![p].err = d.error]
           ELSE inv' = [inv EXCEPT
                    ![p].pc = "preview",
                    ![p].diff = FillNa(d.rows),
                    ![p].obj = [inv[p].obj EXCEPT
                        !.total_rows = Len(inv[p].df1.rows) + Len(inv[p].df2.rows),
                        !.diff_rows = DiffRows(d.rows),
                        !.status = "success",
                        !.finished_at = Some("now")]]
    /\ UNCHANGED <<dbVars, session, ed, resp>>
    /\ UNCHANGED <<diffVars, pureVars>>

\* lines 172-173: CompareResult.objects.create(run=run, payload=payload); the
\* foreign key fails when the Run row is gone
RwsPreview(p) ==
    /\ inv[p].pc = "preview"
    /\ IF inv[p].run \in DOMAIN runs
       THEN /\ results' = Append(results, [run |-> inv[p].run, payload |-> Payload(inv[p].diff)])
            /\ inv' = [inv EXCEPT ![p].pc = "export"]
       ELSE /\ inv' = [inv EXCEPT ![p].pc = "except", ![p].err = "IntegrityError"]
            /\ UNCHANGED results
    /\ UNCHANGED <<datasets, configs, runs, runSeq, files, session, ed, resp>>
    /\ UNCHANGED <<diffVars, pureVars>>

\* lines 176-197: to_csv then to_xlsx, either of which may fail on the file
\* system; then last_export in the session and the locations on the Run
RwsExport(p) ==
    /\ inv[p].pc = "export"
    /\ LET csv == ExportUrl(inv[p].run, ".csv")
           xlsx == ExportUrl(inv[p].run, ".xlsx")
       IN  \/ /\ files' = files \cup {csv, xlsx}
              /\ inv' = [inv EXCEPT
                    ![p].pc = "save",
                    ![p].sess = [inv[p].sess EXCEPT
                        !.last_export = Some([csv |-> csv, xlsx |-> xlsx])],
                    ![p].obj = [inv[p].obj EXCEPT !.export_csv = csv, !.export_xlsx = xlsx]]
           \/ /\ files' = files
              /\ inv' = [inv EXCEPT ![p].pc = "except", ![p].err = "OSError"]
           \/ /\ files' = files \cup {csv}
              /\ inv' = [inv EXCEPT ![p].pc = "except", ![p].err = "OSError"]
    /\ UNCHANGED <<datasets, configs, runs, results, runSeq, session, ed, resp>>
    /\ UNCHANGED <<diffVars, pureVars>>

\* faulty variant of SuccessFields: the export columns left out of update_fields
SuccessFieldsNoExports(row, obj) ==
    [row EXCEPT !.total_rows = obj.total_rows, !.diff_rows = obj.diff_rows,
                !.status = obj.status, !.finished_at = obj.finished_at]
\* the columns written by the save of line 198
SuccessFields(row, obj) ==
    [row EXCEPT !.total_rows = obj.total_rows, !.diff_rows = obj.diff_rows,
                !.status = obj.status, !.finished_at = obj.finished_at,
                !.export_csv = obj.export_csv, !.export_xlsx = obj.export_xlsx]

\* faulty variant of FailureFields: run.save() without update_fields
FailureFieldsAll(row, obj) == obj

\* the columns written by the save of line 204
FailureFields(row, obj) ==
    [row EXCEPT !.status = obj.status, !.message = obj.message,
                !.finished_at = obj.finished_at]

\* lines 198 and 208: run.save(update_fields=[...]) raises DatabaseError when
\* no row is updated; else the redirect to the results, and the session of
\* the request, modified at line 195, is stored with the response
RwsSave(p) ==
    /\ inv[p].pc = "save"
    /\ IF inv[p].run \in DOMAIN runs
       THEN /\ runs' = [runs EXCEPT ![inv[p].run] = SuccessFields(@, inv[p].obj)]
            /\ session' = [session EXCEPT ![inv[p].user] = inv[p].sess]
            /\ inv' = [inv EXCEPT ![p] = IdleInv]
            /\ resp' = Response("run_with_session", inv[p].user, "redirect:results", inv[p].run)
       ELSE /\ inv' = [inv EXCEPT ![p].pc = "except", ![p].err = "DatabaseError"]
            /\ UNCHANGED <<runs, session, resp>>
    /\ UNCHANGED <<datasets, configs, results, runSeq, files, ed>>
    /\ UNCHANGED <<diffVars, pureVars>>

\* lines 200-206: the handler; its own save raises DatabaseError when the Run
\* row is gone, and that exception leaves the view
RwsFail(p) ==
    /\ inv[p].pc = "except"
    /\ LET obj == [inv[p].obj EXCEPT !.status = "failed", !.message = inv[p].err,
                                     !.finished_at = Some("now")]
       IN  IF inv[p].run \in DOMAIN runs
           THEN /\ runs' = [runs EXCEPT ![inv[p].run] = FailureFields(@, obj)]
                /\ resp' = Response("run_with_session", inv[p].user, "redirect:upload", inv[p].run)
           ELSE /\ runs' = runs
                /\ resp' = Response("run_with_session", inv[p].user, "500:DatabaseError", inv[p].run)
    /\ inv' = [inv EXCEPT ![p] = IdleInv]
    /\ UNCHANGED <<datasets, configs, results, runSeq, files, session, ed>>
    /\ UNCHANGED <<diffVars, pureVars>>

(***************************************************************************)
(* comparisons.views.run_edit and run_delete                               *)
(***************************************************************************)
\* faulty variant of MayGet: the owner of the config is not looked at
MayGetAny(u, r) == r \in DOMAIN runs

\* the Run a request of user u may get (lines 491-494, 507-510)
MayGet(u, r) ==
    /\ r \in DOMAIN runs
    /\ u \in Staff \/ configs[runs[r].config].owner = u

\* (request.POST.get("message") or "").strip()
Strip(m) == IF m = " note " THEN "note" ELSE IF m = " " THEN "" ELSE m

\* run_edit, POST: the Run is loaded (lines 491-497)
RunEditLoad(u, r, m) ==
    /\ ed.pc = "idle"
    /\ MayGet(u, r)
    /\ ed' = [pc |-> "loaded", user |-> u, run |-> r,
              obj |-> [runs[r] EXCEPT !.message = Strip(m)], msg |-> m]
    /\ UNCHANGED <<dbVars, session, inv, resp>>
    /\ UNCHANGED <<diffVars, pureVars>>

\* faulty variant of EditFields: run.save() without update_fields
EditAllFields(row, obj) == obj

\* faulty variant of EditFields: the status is among the update_fields
EditStatusToo(row, obj) == [row EXCEPT !.message = obj.message, !.status = obj.status]

\* the columns written by the save of line 498
EditFields(row, obj) == [row EXCEPT !.message = obj.message]

\* run_edit, POST: run.save(update_fields=["message"]) (lines 498-500)
RunEditSave ==
    /\ ed.pc = "loaded"
    /\ IF ed.run \in DOMAIN runs
       THEN /\ runs' = [runs EXCEPT ![ed.run] = EditFields(@, ed.obj)]
            /\ resp' = Response("run_edit", ed.user, "redirect:runs_dashboard", ed.run)
       ELSE /\ runs' = runs
            /\ resp' = Response("run_edit", ed.user, "500:DatabaseError", ed.run)
    /\ ed' = IdleEdit
    /\ UNCHANGED <<datasets, configs, results, runSeq, files, session, inv>>
    /\ UNCHANGED <<diffVars, pureVars>>

\* run_delete, POST (lines 507-516): the Run and, by cascade, its previews
RunDelete(u, r) ==
    /\ MayGet(u, r)
    /\ runs' = [x \in DOMAIN runs \ {r} |-> runs[x]]
    /\ results' = SelectSeq(results, LAMBDA res : res.run # r)
    /\ resp' = Response("run_delete", u, "redirect:runs_dashboard", r)
    /\ UNCHANGED <<datasets, configs, runSeq, files, session, inv, ed>>
    /\ UNCHANGED <<diffVars, pureVars>>

\* results, run_edit and run_delete on a Run that the user may not get (lines
\* 217-220, 491-494, 507-510): get_object_or_404 answers 404
NotFound(view, u, r) ==
    /\ ~MayGet(u, r)
    /\ resp' = Response(view, u, "404", r)
    /\ UNCHANGED <<dbVars, session, inv, ed>>
    /\ UNCHANGED <<diffVars, pureVars>>

\* run_edit, GET (lines 491-494, 502): the form is rendered
RunEditGet(u, r) ==
    /\ MayGet(u, r)
    /\ resp' = Response("run_edit", u, "render:run_edit", r)
    /\ UNCHANGED <<dbVars, session, inv, ed>>
    /\ UNCHANGED <<diffVars, pureVars>>

\* run_delete, not POST (lines 507-510, 518): the confirmation page
RunDeleteGet(u, r) ==
    /\ MayGet(u, r)
    /\ resp' = Response("run_delete", u, "render:run_confirm_delete", r)
    /\ UNCHANGED <<dbVars, session, inv, ed>>
    /\ UNCHANGED <<diffVars, pureVars>>

\* run_bulk_delete, not POST (lines 523-524) or POST with nothing selected
\* (lines 526-529): the redirect, with the message of line 528 in the second case
RunBulkDeleteNothing(u, method) ==
    /\ resp' = Response("run_bulk_delete", u,
                        IF method = "POST" THEN "redirect:runs_dashboard:none_selected"
                        ELSE "redirect:runs_dashboard:not_post", 0)
    /\ UNCHANGED <<dbVars, session, inv, ed>>
    /\ UNCHANGED <<diffVars, pureVars>>

\* faulty variant of RunBulkDelete: the previews of the deleted Runs are left
RunBulkDeleteNoCascade(u, ids) ==
    /\ ids # {}
    /\ LET qs == {r \in ids : MayGet(u, r)}
       IN  /\ runs' = [x \in DOMAIN runs \ qs |-> runs[x]]
           /\ resp' = [Response("run_bulk_delete", u, "redirect:runs_dashboard", 0)
                          EXCEPT !.count = Cardinality(qs)]
    /\ UNCHANGED <<datasets, configs, results, runSeq, files, session, inv, ed>>
    /\ UNCHANGED <<diffVars, pureVars>>

\* run_bulk_delete, POST of the ids selected (lines 531-538): the Runs of
\* these ids, those of the user's configs only when the user is not staff, are
\* deleted with, by cascade, their previews
RunBulkDelete(u, ids) ==
    /\ ids # {}
    /\ LET qs == {r \in ids : MayGet(u, r)}
       IN  /\ runs' = [x \in DOMAIN runs \ qs |-> runs[x]]
           /\ results' = SelectSeq(results, LAMBDA res : res.run \notin qs)
           /\ resp' = [Response("run_bulk_delete", u, "redirect:runs_dashboard", 0)
                          EXCEPT !.count = Cardinality(qs)]
    /\ UNCHANGED <<datasets, configs, runSeq, files, session, inv, ed>>
    /\ UNCHANGED <<diffVars, pureVars>>

(***************************************************************************)
(* comparisons.views.results                                               *)
(***************************************************************************)
\* lines 216-239: the Run and its preview are found (404 otherwise), and the
\* page is rendered with exports = request.session.get("last_export", {})
results_view(u, r) ==
    /\ MayGet(u, r)
    /\ \E i \in 1..Len(results) : results[i].run = r
    /\ resp' = [Response("results", u, "render:results", r)
                   EXCEPT !.exports = session[u].last_export]
    /\ UNCHANGED <<dbVars, session, inv, ed>>
    /\ UNCHANGED <<diffVars, pureVars>>

(***************************************************************************)
(* Spec: the requests of one session, from the empty database: upload,     *)
(* choose_columns and run_with_session of one user, one request after the  *)
(* other (a request starts when the previous one has answered).            *)
(***************************************************************************)
SessionUser == "u1"
SessionProc == CHOOSE p \in Procs : \A q \in Procs : p <= q

Init == InitApp /\ InitDiffIdle /\ InitPureIdle

NextUpload ==
    /\ Free(SessionProc)
    /\ \E fs \in {<<FileA, FileB>>} : Upload(SessionUser, fs[1], fs[2])

PostedForms(u) ==
    IF session[u].upload_context = None THEN {}
    ELSE Forms(session[u].upload_context[1].headers)

NextChooseColumns ==
    /\ Free(SessionProc)
    /\ \E h1 \in HeaderRows, h2 \in DesktopHeaderRows :
          \/ ChooseColumnsApply(SessionUser, h1, h2)
          \/ \E f \in PostedForms(SessionUser) :
                ChooseColumnsInvalid(SessionUser, h1, h2, f.c1, f.c2, f.k1, f.k2, f.jt)
          \/ \E f \in PostedForms(SessionUser) :
                ChooseColumnsKeysRefused(SessionUser, h1, h2, f.c1, f.c2, f.k1, f.k2, f.jt)
          \/ \E f \in PostedForms(SessionUser) :
                ChooseColumnsRaises(SessionUser, h1, h2, f.c1, f.c2, f.k1, f.k2, f.jt)
          \/ \E f \in PostedForms(SessionUser) :
                ChooseColumnsSave(SessionUser, h1, h2, f.c1, f.c2, f.k1, f.k2, f.jt)

NextRun ==
    \/ RwsMissingParams(SessionProc, SessionUser)
    \/ runSeq < MaxSessionRuns /\ RwsCreate(SessionProc, SessionUser)
    \/ RwsCompute(SessionProc)
    \/ RwsPreview(SessionProc)
    \/ RwsExport(SessionProc)
    \/ RwsSave(SessionProc)
    \/ RwsFail(SessionProc)

Next == NextUpload \/ NextChooseColumns \/ NextRun

Spec == Init /\ [][Next]_vars

(***************************************************************************)
(* SpecLedger: the Run ledger under concurrent requests.  Both users have  *)
(* uploaded FileA and FileB and saved a config on ("id", "name") with key  *)
(* "id"; u1 may since have applied header line 1 to its first file, which  *)
(* its config does not fit.  Then run_with_session, run_edit and           *)
(* run_delete requests of both users in any interleaving.                  *)
(***************************************************************************)
PreparedDatasets ==
    << [owner |-> "u1", source |-> "web1", file |-> FileA, header |-> FileA[1],
        ext |-> ".csv", exists |-> TRUE],
       [owner |-> "u1", source |-> "desktop", file |-> FileB, header |-> FileB[1],
        ext |-> ".csv", exists |-> TRUE],
       [owner |-> "u2", source |-> "web1", file |-> FileA, header |-> FileA[1],
        ext |-> ".csv", exists |-> TRUE],
       [owner |-> "u2", source |-> "desktop", file |-> FileB, header |-> FileB[1],
        ext |-> ".csv", exists |-> TRUE] >>

PreparedConfig(u) ==
    [owner |-> u, category |-> Category, name |-> ConfigName,
     columns_web1 |-> Header, columns_desktop |-> Header,
     join_key_web1 |-> <<"id">>, join_key_desktop |-> <<"id">>,
     join_type |-> "outer", is_active |-> TRUE]

PreparedSession(first, cid, h) ==
    [upload_context |->
        Some([category_id |-> Category, dataset_web1_id |-> first,
              dataset_desktop_id |-> first + 1,
              headers |-> [web1 |-> FileA[h + 1], desktop |-> FileB[1]],
              header_rows |-> Some([web1 |-> h, desktop |-> 0])]),
     config_id |-> Some(cid), last_export |-> None]

InitLedger ==
    /\ datasets = PreparedDatasets
    /\ configs = <<PreparedConfig("u1"), PreparedConfig("u2")>>
    /\ runs = <<>>
    /\ results = <<>>
    /\ runSeq = 0
    /\ files = {}
    /\ \E h \in HeaderRows :
          session = [u \in Users |-> IF u = "u1" THEN PreparedSession(1, 1, h)
                                     ELSE PreparedSession(3, 2, 0)]
    /\ inv = [p \in Procs |-> IdleInv]
    /\ ed = IdleEdit
    /\ resp = NoResponse
    /\ InitDiffIdle
    /\ InitPureIdle

NextLedger ==
    \/ \E p \in Procs :
          \/ \E u \in Users : RwsCreate(p, u)
          \/ RwsCompute(p) \/ RwsPreview(p) \/ RwsExport(p) \/ RwsSave(p) \/ RwsFail(p)
    \/ \E u \in Users, r \in DOMAIN runs, m \in EditMessages : RunEditLoad(u, r, m)
    \/ RunEditSave
    \/ \E u \in Users, r \in DOMAIN runs : RunDelete(u, r)

SpecLedger == InitLedger /\ [][NextLedger]_vars

(***************************************************************************)
(* SpecIngest: the prepared database, where the two files of u2 may be     *)
(* absent from the storage or stored under a name that is no .csv (a       *)
(* Dataset row saved through the admin site, which may also have given the *)
(* web1 Dataset of u2 to u1), and the session of u2 may lack the upload    *)
(* context or the config.  run_with_session requests of both users in any  *)
(* interleaving.                                                           *)
(***************************************************************************)
InitIngest ==
    /\ \E e1, e2 \in {".csv", ".txt"}, x1, x2 \in BOOLEAN, o \in Users :
          datasets = [PreparedDatasets EXCEPT ![3].ext = e1, ![3].exists = x1,
                                              ![3].owner = o,
                                              ![4].ext = e2, ![4].exists = x2]
    /\ configs = <<PreparedConfig("u1"), PreparedConfig("u2")>>
    /\ runs = <<>>
    /\ results = <<>>
    /\ runSeq = 0
    /\ files = {}
    /\ \E s \in {PreparedSession(3, 2, 0),
                 [PreparedSession(3, 2, 0) EXCEPT !.config_id = None],
                 [PreparedSession(3, 2, 0) EXCEPT !.upload_context = None]} :
          session = [u \in Users |-> IF u = "u1" THEN PreparedSession(1, 1, 0) ELSE s]
    /\ inv = [p \in Procs |-> IdleInv]
    /\ ed = IdleEdit
    /\ resp = NoResponse
    /\ InitDiffIdle
    /\ InitPureIdle

NextIngest ==
    \E p \in Procs :
        \/ \E u \in Users : RwsMissingParams(p, u)
        \/ \E u \in Users : RwsNotFound(p, u)
        \/ \E u \in Users : RwsReadError(p, u)
        \/ \E u \in Users : RwsCreate(p, u)
        \/ RwsCompute(p) \/ RwsPreview(p) \/ RwsExport(p) \/ RwsSave(p) \/ RwsFail(p)

SpecIngest == InitIngest /\ [][NextIngest]_vars

(***************************************************************************)
(* SpecManage: from the prepared database, the comparisons of one worker   *)
(* and, between any two of its steps, the results, run_edit, run_delete    *)
(* and run_bulk_delete requests of both users, POST or not, on any ids.    *)
(***************************************************************************)
NextManage ==
    LET RunIds == 1..MaxRuns
        \* the requests that write nothing are answered between two comparisons
        Quiet == Free(SessionProc) /\ ed.pc = "idle"
    IN  \/ \E u \in Users : RwsCreate(SessionProc, u)
        \/ RwsCompute(SessionProc) \/ RwsPreview(SessionProc) \/ RwsExport(SessionProc)
        \/ RwsSave(SessionProc) \/ RwsFail(SessionProc)
        \/ \E u \in Users, r \in RunIds :
              \/ \E m \in EditMessages : RunEditLoad(u, r, m)
              \/ RunDelete(u, r)
              \/ Quiet /\ results_view(u, r)
              \/ Quiet /\ RunEditGet(u, r)
              \/ Quiet /\ RunDeleteGet(u, r)
              \/ Quiet /\ \E view \in {"results", "run_edit", "run_delete"} : NotFound(view, u, r)
        \/ RunEditSave
        \/ \E u \in Users :
              \/ Quiet /\ \E method \in {"GET", "POST"} : RunBulkDeleteNothing(u, method)
              \/ \E ids \in SUBSET RunIds : RunBulkDelete(u, ids)

SpecManage == InitLedger /\ [][NextManage]_vars

(***************************************************************************)
(* SpecResults: from the prepared database, comparisons run one after the  *)
(* other and results pages asked between them.                             *)
(***************************************************************************)
NextResults ==
    \/ \E u \in Users : RwsCreate(SessionProc, u)
    \/ RwsCompute(SessionProc)
    \/ RwsPreview(SessionProc)
    \/ RwsExport(SessionProc)
    \/ RwsSave(SessionProc)
    \/ RwsFail(SessionProc)
    \/ \E u \in Users, r \in DOMAIN runs : Free(SessionProc) /\ results_view(u, r)

SpecResults == InitLedger /\ [][NextResults]_vars

(***************************************************************************)
(* SpecPure: one call of a helper function on arguments drawn from         *)
(* bounded sets.                                                           *)
(***************************************************************************)
MaxSelected == 3
MaxHeaders == 2
SeqsUpTo(S, n) == UNION {[1..k -> S] : k \in 0..n}

\* a diff of n rows for the preview: row x has id x, and the name of the
\* first row is missing
DiffOfSize(n) ==
    [x \in 1..n |-> [li |-> x, ri |-> 0,
                     cells |-> [id |-> ToString(x), name |-> IF x = 1 THEN NaN ELSE "A",
                                _merge |-> "left_only"]]]

\* run_with_session lines 164-173 on a diff: the count put on the Run and the
\* payload of the preview
preview(rows) ==
    Result("", [diff_rows |-> DiffRows(FillNa(rows)), payload |-> Payload(FillNa(rows))])

\* ---- _sanitize_for_export: texts are sequences of character codes ----

\* _ILLEGAL_XLSX_RE = [\x00-\x08\x0B\x0C\x0E-\x1F]
ILLEGAL_XLSX_RE(c) == c \in (0..8) \cup {11, 12} \cup (14..31)

\* a missing cell (NaN, pd.NA): no text
NA == <<-1>>

\* "_merge"
MergeName == <<95, 109, 101, 114, 103, 101>>

\* _ILLEGAL_XLSX_RE.sub("", text)
Sub(text) == SelectSeq(text, LAMBDA c : ~ILLEGAL_XLSX_RE(c))

\* df.drop(columns=["_merge"], errors="ignore"): the positions that stay
DropMerge(columns) == SelectSeq([j \in 1..Len(columns) |-> j], LAMBDA j : columns[j] # MergeName)

\* safe[col] is a DataFrame, without .str, when two columns bear the name col
Duplicated(names) == \E i, j \in 1..Len(names) : i # j /\ names[i] = names[j]

sanitize_for_export(df) ==
    LET kept == DropMerge(df.columns)
        names == [j \in 1..Len(kept) |-> Sub(df.columns[kept[j]])]
        filled == [x \in 1..Len(df.rows) |->
                     [j \in 1..Len(kept) |->
                        IF df.rows[x][kept[j]] = NA THEN <<>> ELSE df.rows[x][kept[j]]]]
    IN  IF Duplicated(names)
        THEN Result("AttributeError", <<>>)
        ELSE Result("", [columns |-> names,
                         rows |-> [x \in 1..Len(filled) |->
                                     [j \in 1..Len(kept) |-> Sub(filled[x][j])]]])

MaxSanColumns == 2
MaxSanRows == 1

\* the tables handed to the sanitizer: distinct names, _merge and a name
\* that becomes _merge among them; the cells of the columns after the first
\* are missing or one text
SanTables ==
    LET SanNames == {MergeName, <<95, 109, 101, 114, 1, 103, 101>>, <<65>>, <<65, 11>>, <<9, 66>>}
        SanCells == {NA, <<>>, <<66, 1, 65>>, <<9, 0, 10>>, <<59, 59, 44>>}
                       \cup {<<c>> : c \in {0, 8, 9, 10, 11, 12, 13, 14, 31, 32, 65}}
        OtherCells == {NA, <<66, 1, 65>>}
        SanRows(k) == {r \in [1..k -> SanCells] : \A j \in 2..k : r[j] \in OtherCells}
    IN  UNION {[columns : {cs \in [1..k -> SanNames] : \A i, j \in 1..k : cs[i] = cs[j] => i = j},
                rows : UNION {[1..n -> SanRows(k)] : n \in 0..MaxSanRows}]
               : k \in 1..MaxSanColumns}
\* ---- sniff_sep ----

TAB == 9
SEMICOLON == 59
COMMA == 44

\* sample.count(c)
Count(text, c) == Len(SelectSeq(text, LAMBDA x : x = c))

\* the sample is the decoded head of the file
sniff_sep(sample) ==
    LET c_tab == Count(sample, TAB)
        c_sem == Count(sample, SEMICOLON)
        c_com == Count(sample, COMMA)
        max == IF c_sem >= c_com THEN c_sem ELSE c_com
    IN  IF c_tab > max
        THEN TAB
        ELSE IF c_sem >= c_com THEN SEMICOLON ELSE COMMA

MaxSample == 4

\* ---- decoding of the bytes of a CSV file ----

ENCODING_CANDIDATES == <<"utf-8-sig", "utf-8", "cp1252", "latin1", "mac_roman">>

\* a continuation byte at position i
Cont(raw, i) == i <= Len(raw) /\ raw[i] >= 128 /\ raw[i] <= 191

\* the length of the well-formed UTF-8 sequence at position i, 0 when the
\* bytes there are not well-formed
Utf8Len(raw, i) ==
    LET b == raw[i]
    IN  IF b < 128 THEN 1
        ELSE IF b >= 194 /\ b <= 223 /\ Cont(raw, i + 1) THEN 2
        ELSE IF /\ b >= 224 /\ b <= 239 /\ Cont(raw, i + 1) /\ Cont(raw, i + 2)
                /\ (b = 224 => raw[i + 1] >= 160)
                /\ (b = 237 => raw[i + 1] <= 159) THEN 3
        ELSE IF /\ b >= 240 /\ b <= 244
                /\ Cont(raw, i + 1) /\ Cont(raw, i + 2) /\ Cont(raw, i + 3)
                /\ (b = 240 => raw[i + 1] >= 144)
                /\ (b = 244 => raw[i + 1] <= 143) THEN 4
        ELSE 0

\* the code point of the well-formed sequence of n bytes at position i
Utf8Point(raw, i, n) ==
    IF n = 1 THEN raw[i]
    ELSE IF n = 2 THEN (raw[i] - 192) * 64 + (raw[i + 1] - 128)
    ELSE IF n = 3 THEN (raw[i] - 224) * 4096 + (raw[i + 1] - 128) * 64 + (raw[i + 2] - 128)
    ELSE (raw[i] - 240) * 262144 + (raw[i + 1] - 128) * 4096
            + (raw[i + 2] - 128) * 64 + (raw[i + 3] - 128)

RECURSIVE Utf8Valid(_, _)
Utf8Valid(raw, i) ==
    IF i > Len(raw) THEN TRUE
    ELSE IF Utf8Len(raw, i) = 0 THEN FALSE
    ELSE Utf8Valid(raw, i + Utf8Len(raw, i))

RECURSIVE Utf8Text(_, _)
Utf8Text(raw, i) ==
    IF i > Len(raw) THEN <<>>
    ELSE <<Utf8Point(raw, i, Utf8Len(raw, i))>> \o Utf8Text(raw, i + Utf8Len(raw, i))

\* the byte order mark EF BB BF at the head of the bytes
HasBom(raw) == Len(raw) >= 3 /\ raw[1] = 239 /\ raw[2] = 187 /\ raw[3] = 191

\* cp1252 of the bytes 128..159, -1 where the code page has no character
Cp1252High ==
    <<8364, -1, 8218, 402, 8222, 8230, 8224, 8225, 710, 8240, 352, 8249,
       338, -1, 381, -1, -1, 8216, 8217, 8220, 8221, 8226, 8211, 8212,
       732, 8482, 353, 8250, 339, -1, 382, 376>>

\* mac_roman of the bytes 128..255
MacRomanHigh ==
    <<196, 197, 199, 201, 209, 214, 220, 225, 224, 226, 228, 227,
       229, 231, 233, 232, 234, 235, 237, 236, 238, 239, 241, 243,
       242, 244, 246, 245, 250, 249, 251, 252, 8224, 176, 162, 163,
       167, 8226, 182, 223, 174, 169, 8482, 180, 168, 8800, 198, 216,
       8734, 177, 8804, 8805, 165, 181, 8706, 8721, 8719, 960, 8747, 170,
       186, 937, 230, 248, 191, 161, 172, 8730, 402, 8776, 8710, 171,
       187, 8230, 160, 192, 195, 213, 338, 339, 8211, 8212, 8220, 8221,
       8216, 8217, 247, 9674, 255, 376, 8260, 8364, 8249, 8250, 64257, 64258,
       8225, 183, 8218, 8222, 8240, 194, 202, 193, 203, 200, 205, 206,
       207, 204, 211, 212, 63743, 210, 218, 219, 217, 305, 710, 732,
       175, 728, 729, 730, 184, 733, 731, 711>>

\* bytes.decode(enc) does not raise
Decodes(enc, raw) ==
    IF enc = "utf-8-sig" THEN Utf8Valid(raw, IF HasBom(raw) THEN 4 ELSE 1)
    ELSE IF enc = "utf-8" THEN Utf8Valid(raw, 1)
    ELSE IF enc = "cp1252"
    THEN \A i \in 1..Len(raw) : raw[i] >= 128 /\ raw[i] <= 159 => Cp1252High[raw[i] - 127] # -1
    ELSE TRUE

\* bytes.decode(enc): the code points
Decoded(enc, raw) ==
    IF enc = "utf-8-sig" THEN Utf8Text(raw, IF HasBom(raw) THEN 4 ELSE 1)
    ELSE IF enc = "utf-8" THEN Utf8Text(raw, 1)
    ELSE IF enc = "cp1252"
    THEN [i \in 1..Len(raw) |->
             IF raw[i] >= 128 /\ raw[i] <= 159 THEN Cp1252High[raw[i] - 127] ELSE raw[i]]
    ELSE IF enc = "latin1" THEN raw
    ELSE [i \in 1..Len(raw) |-> IF raw[i] >= 128 THEN MacRomanHigh[raw[i] - 127] ELSE raw[i]]

\* faulty variant of the loop: the candidates from the second on
RECURSIVE DecodeSkipFirst(_, _)
DecodeSkipFirst(raw, k) ==
    IF k > Len(ENCODING_CANDIDATES)
    THEN Result("UnicodeDecodeError", <<>>)
    ELSE IF k > 1 /\ Decodes(ENCODING_CANDIDATES[k], raw)
    THEN Result("", [encoding |-> ENCODING_CANDIDATES[k],
                     text |-> Decoded(ENCODING_CANDIDATES[k], raw)])
    ELSE DecodeSkipFirst(raw, k + 1)

\* the loop over the candidates from the k-th on: the first that decodes,
\* and UnicodeDecodeError after the last
RECURSIVE DecodeFrom(_, _)
DecodeFrom(raw, k) ==
    IF k > Len(ENCODING_CANDIDATES)
    THEN Result("UnicodeDecodeError", <<>>)
    ELSE IF Decodes(ENCODING_CANDIDATES[k], raw)
    THEN Result("", [encoding |-> ENCODING_CANDIDATES[k],
                     text |-> Decoded(ENCODING_CANDIDATES[k], raw)])
    ELSE DecodeFrom(raw, k + 1)

MaxBytes == 3

\* ---- to_csv and the reading of the file it wrote ----

QUOTE == 34
LF == 10

\* csv.writer, QUOTE_MINIMAL: a field with the delimiter, the quote or the
\* line terminator is quoted, its quotes doubled; so is the empty field of a
\* one-field record
CsvField(text, alone) ==
    LET doubled == [i \in 1..Len(text) |-> IF text[i] = QUOTE THEN <<QUOTE, QUOTE>> ELSE <<text[i]>>]
    IN  IF (\E i \in 1..Len(text) : text[i] \in {COMMA, QUOTE, LF}) \/ (alone /\ text = <<>>)
        THEN <<QUOTE>> \o Flatten(doubled) \o <<QUOTE>>
        ELSE text

RECURSIVE CsvLine(_, _)
CsvLine(fields, j) ==
    IF j > Len(fields) THEN <<LF>>
    ELSE (IF j > 1 THEN <<COMMA>> ELSE <<>>)
            \o CsvField(fields[j], Len(fields) = 1) \o CsvLine(fields, j + 1)

\* str.encode("utf-8") of code points below U+10000
Utf8Bytes(text) ==
    Flatten([i \in 1..Len(text) |->
        IF text[i] < 128 THEN <<text[i]>>
        ELSE IF text[i] < 2048 THEN <<192 + (text[i] \div 64), 128 + (text[i] % 64)>>
        ELSE <<224 + (text[i] \div 4096), 128 + ((text[i] \div 64) % 64), 128 + (text[i] % 64)>>])

\* df.to_csv(path, index=False): the bytes of the file
to_csv(df) ==
    Utf8Bytes(CsvLine(df.columns, 1)
                 \o Flatten([x \in 1..Len(df.rows) |-> CsvLine(df.rows[x], 1)]))

\* csv.reader over the lines of the text, from position i on; s is the state
\* of the reader: st, the field and the record under way, the records read
RECURSIVE ParseCsv(_, _, _, _)
ParseCsv(text, sep, i, s) ==
    IF i > Len(text)
    THEN IF s.st = "start_record"
         THEN s.recs
         ELSE Append(s.recs, Append(s.rec, s.field))
    ELSE LET c == text[i]
             saved == Append(s.rec, s.field)
             next ==
                IF s.st = "quoted"
                THEN IF c = QUOTE THEN [s EXCEPT !.st = "quote_in_quoted"]
                     ELSE [s EXCEPT !.field = Append(@, c)]
                ELSE IF c = LF
                THEN [st |-> "start_record", field |-> <<>>, rec |-> <<>>,
                      recs |-> Append(s.recs, IF s.st = "start_record" THEN <<>> ELSE saved)]
                ELSE IF c = sep
                THEN [s EXCEPT !.st = "start_field", !.field = <<>>, !.rec = saved]
                ELSE IF c = QUOTE /\ s.st \in {"start_record", "start_field"}
                THEN [s EXCEPT !.st = "quoted"]
                ELSE IF c = QUOTE /\ s.st = "quote_in_quoted"
                THEN [s EXCEPT !.st = "quoted", !.field = Append(@, c)]
                ELSE [s EXCEPT !.st = "in_field", !.field = Append(@, c)]
         IN  ParseCsv(text, sep, i + 1, next)

\* _read_csv_from_bytes(raw, header=0): the separator sniffed on the bytes,
\* the first encoding that decodes, the records without the empty lines, the
\* first of them as header; a first data line longer than the header gives
\* its first fields to the index, a later line longer still is a ParserError
read_csv_from_bytes(raw) ==
    LET sep == sniff_sep(raw)
        dec == DecodeFrom(raw, 1)
        recs == ParseCsv(dec.value.text, sep, 1,
                         [st |-> "start_record", field |-> <<>>, rec |-> <<>>, recs |-> <<>>])
        blank(r) == Len(r) = 0 \/ (Len(r) = 1 /\ \A i \in 1..Len(r[1]) : r[1][i] \in {32, TAB})
        lines == SelectSeq(recs, LAMBDA r : ~blank(r))
        header == lines[1]
        data == SubSeq(lines, 2, Len(lines))
        width == IF data # <<>> /\ Len(data[1]) > Len(header) THEN Len(data[1]) ELSE Len(header)
    IN  IF dec.error # "" THEN Result(dec.error, <<>>)
        ELSE IF lines = <<>> THEN Result("EmptyDataError", <<>>)
        ELSE IF \E x \in 1..Len(data) : Len(data[x]) > width THEN Result("ParserError", <<>>)
        ELSE Result("", [columns |-> header, nrows |-> Len(data)])

\* the sanitized tables written: columns A, B, ..., cells without quote and
\* line break
CsvTables ==
    LET cells == {<<>>, <<65>>, <<32>>, <<SEMICOLON>>, <<COMMA>>, <<COMMA, SEMICOLON, SEMICOLON>>}
    IN  UNION {[columns : {[j \in 1..k |-> <<64 + j>>]},
                rows : UNION {[1..n -> [1..k -> cells]] : n \in 0..MaxSanRows}]
               : k \in 1..MaxSanColumns}
\* ---- the column names of the output of compute_diff ----

\* the names pd.merge gives to the columns of the two projections, in order,
\* and the indicator
MergedNames(c) ==
    LET k1 == KeyList(c.join_key_web1)
        k2 == KeyList(c.join_key_desktop)
        kept2 == SelectSeq(c.columns_desktop, LAMBDA n : n \notin RightDropped(k1, k2))
    IN  [j \in 1..Len(c.columns_web1) |-> LeftName(c.columns_web1[j], c.columns_desktop, k1, k2)]
          \o [j \in 1..Len(kept2) |-> RightName(kept2[j], c.columns_web1)]
          \o <<"_merge">>

\* what compute_diff can give for the names of its output.  When the
\* suffixes make two names equal, pandas 2 raises MergeError and pandas 1
\* warns and keeps both columns; merged[c1] != merged[c2] on a name borne by
\* two columns raises ValueError
diff_columns(c) ==
    LET names == MergedNames(c)
        twice == {names[i] : i \in {x \in 1..Len(names) : \E y \in 1..Len(names) : x # y /\ names[x] = names[y]}}
        compared == UNION {{n \o "_web1", n \o "_desktop"} : n \in Commons(c)}
    IN  IF "_merge" \in SeqToSet(c.columns_web1) \cup SeqToSet(c.columns_desktop)
        THEN {Result("ValueError", <<>>)}
        ELSE IF twice = {} THEN {Result("", names)}
        ELSE IF twice \cap compared # {}
        THEN {Result("MergeError", <<>>), Result("ValueError", <<>>)}
        ELSE {Result("MergeError", <<>>), Result("", names)}
InitPure ==
    /\ \/ /\ fn = "validate_columns"
          /\ args \in [selected : SeqsUpTo({"id", "name", "qty"}, MaxSelected),
                        headers : SeqsUpTo({"id", "name", "qty"}, MaxHeaders)]
       \/ /\ fn = "preview"
          /\ args \in {[diff |-> DiffOfSize(n)] :
                          n \in {0, 1, MaxRows, PreviewRows - 1, PreviewRows,
                                 PreviewRows + 1, PreviewRows + MaxRows}}
       \/ fn = "_sanitize_for_export" /\ args \in [df : SanTables]
       \/ /\ fn = "sniff_sep"
          /\ args \in [sample : SeqsUpTo({TAB, SEMICOLON, COMMA, 65}, MaxSample)]
       \/ /\ fn = "decode"
          /\ args \in [raw : SeqsUpTo({65, 128, 129, 169, 187, 191, 195, 233, 239}, MaxBytes)]
       \/ fn = "to_csv" /\ args \in [df : CsvTables]
       \/ /\ fn = "compute_diff"
          /\ \E c1 \in SeqsUpTo({"id", "code", "id_web1", "name"}, MaxSelected),
                c2 \in SeqsUpTo({"id", "code", "id_web1", "name"}, MaxHeaders) :
                /\ c1 # <<>> /\ c2 # <<>>
                /\ \A i, j \in DOMAIN c1 : c1[i] = c1[j] => i = j
                /\ \A i, j \in DOMAIN c2 : c2[i] = c2[j] => i = j
                /\ \E a \in DOMAIN c1, b \in DOMAIN c2 :
                      args = MakeCfg(c1, c2, <<c1[a]>>, <<c2[b]>>, "outer")
    /\ ret = None
    /\ InitApp
    /\ InitDiffIdle

CallValidateColumns ==
    /\ fn = "validate_columns" /\ ret = None
    /\ ret' = Some(validate_columns(args.selected, args.headers))
    /\ UNCHANGED <<fn, args, appVars, diffVars>>

CallPreview ==
    /\ fn = "preview" /\ ret = None
    /\ ret' = Some(preview(args.diff))
    /\ UNCHANGED <<fn, args, appVars, diffVars>>

CallSanitizeForExport ==
    /\ fn = "_sanitize_for_export" /\ ret = None
    /\ ret' = Some(sanitize_for_export(args.df))
    /\ UNCHANGED <<fn, args, appVars, diffVars>>

CallSniffSep ==
    /\ fn = "sniff_sep" /\ ret = None
    /\ ret' = Some(Result("", sniff_sep(args.sample)))
    /\ UNCHANGED <<fn, args, appVars, diffVars>>

\* the decoding part of _read_csv_from_bytes
CallDecode ==
    /\ fn = "decode" /\ ret = None
    /\ ret' = Some(DecodeFrom(args.raw, 1))
    /\ UNCHANGED <<fn, args, appVars, diffVars>>

\* to_csv(export_df, csv_path), then the file read back with header row 0
CallToCsvAndRead ==
    /\ fn = "to_csv" /\ ret = None
    /\ ret' = Some(read_csv_from_bytes(to_csv(args.df)))
    /\ UNCHANGED <<fn, args, appVars, diffVars>>

\* compute_diff on the projections and keys of a config: the names of the
\* columns of what it returns
CallDiffColumns ==
    /\ fn = "compute_diff" /\ ret = None
    /\ \E out \in diff_columns(args) : ret' = Some(out)
    /\ UNCHANGED <<fn, args, appVars, diffVars>>

NextPure ==
    \/ CallDiffColumns
    \/ CallValidateColumns
    \/ CallPreview
    \/ CallSanitizeForExport
    \/ CallSniffSep
    \/ CallDecode
    \/ CallToCsvAndRead

SpecPure == InitPure /\ [][NextPure]_vars

(***************************************************************************)
(* Properties of compute_diff, read on a finished call (SpecDiff).  They   *)
(* are stated on the input tables: a left row i and a right row j are      *)
(* counterparts when their key values agree position by position, and the  *)
(* compared columns are the names projected on both sides that are a key   *)
(* on neither.  An absent cell equals an absent cell.                      *)
(***************************************************************************)
Called == dpc = "returned"

Compared ==
    (SeqToSet(cfg.columns_web1) \cap SeqToSet(cfg.columns_desktop))
      \ (SeqToSet(cfg.join_key_web1) \cup SeqToSet(cfg.join_key_desktop))

Counterparts(i, j) ==
    \A p \in 1..Len(cfg.join_key_web1) :
        df1.rows[i][cfg.join_key_web1[p]] = df2.rows[j][cfg.join_key_desktop[p]]

SameValues(i, j) == \A c \in Compared : df1.rows[i][c] = df2.rows[j][c]

LeftAlone(i)  == \A j \in DOMAIN df2.rows : ~ Counterparts(i, j)
RightAlone(j) == \A i \in DOMAIN df1.rows : ~ Counterparts(i, j)

IncludesLeft  == cfg.join_type \in {"left", "outer", ""}
IncludesRight == cfg.join_type \in {"right", "outer", ""}

\* the output rows that come from left row i and right row j (0: no row)
OutRows(i, j) == {x \in DOMAIN diff.rows : diff.rows[x].li = i /\ diff.rows[x].ri = j}
OutOfLeft(i)  == {x \in DOMAIN diff.rows : diff.rows[x].li = i}
OutOfRight(j) == {x \in DOMAIN diff.rows : diff.rows[x].ri = j}
Tag(x) == diff.rows[x].cells["_merge"]

\* C1: compute_diff never returns a matched-equal row: no output row tagged
\* "both" joins a left and a right row whose values are equal in every
\* compared column.
C1_NoMatchedEqualRow ==
    Called => \A x \in DOMAIN diff.rows :
                 Tag(x) = "both" => ~ SameValues(diff.rows[x].li, diff.rows[x].ri)

\* C2: the output is exactly the one-sided rows kept by the join mode plus
\* the counterpart pairs that differ in a compared column, each once and
\* with its provenance tag; nothing else is in it.
C2_ExactDiffSet ==
    Called =>
      /\ \A i \in DOMAIN df1.rows, j \in DOMAIN df2.rows :
            Cardinality(OutRows(i, j)) =
                IF Counterparts(i, j) /\ ~ SameValues(i, j) THEN 1 ELSE 0
      /\ \A i \in DOMAIN df1.rows :
            Cardinality(OutRows(i, 0)) = IF LeftAlone(i) /\ IncludesLeft THEN 1 ELSE 0
      /\ \A j \in DOMAIN df2.rows :
            Cardinality(OutRows(0, j)) = IF RightAlone(j) /\ IncludesRight THEN 1 ELSE 0
      /\ \A x \in DOMAIN diff.rows :
            /\ diff.rows[x].li # 0 \/ diff.rows[x].ri # 0
            /\ Tag(x) = (IF diff.rows[x].ri = 0 THEN "left_only"
                         ELSE IF diff.rows[x].li = 0 THEN "right_only" ELSE "both")

\* C3: in mode outer every input row of either side is in exactly one
\* output row, unless it has a counterpart equal in all compared columns,
\* and then it is in none.
C3_OuterEachRowOnce ==
    (Called /\ cfg.join_type = "outer") =>
      /\ \A i \in DOMAIN df1.rows :
            Cardinality(OutOfLeft(i)) =
                IF \E j \in DOMAIN df2.rows : Counterparts(i, j) /\ SameValues(i, j)
                THEN 0 ELSE 1
      /\ \A j \in DOMAIN df2.rows :
            Cardinality(OutOfRight(j)) =
                IF \E i \in DOMAIN df1.rows : Counterparts(i, j) /\ SameValues(i, j)
                THEN 0 ELSE 1

\* C4: a row with no counterpart is in the output, once and tagged with its
\* side, iff the join mode includes its side; the empty join_type is outer.
C4_OneSidedRowsByMode ==
    Called =>
      /\ \A i \in DOMAIN df1.rows :
            LeftAlone(i) =>
              /\ Cardinality(OutOfLeft(i)) = IF IncludesLeft THEN 1 ELSE 0
              /\ \A x \in OutOfLeft(i) : Tag(x) = "left_only"
      /\ \A j \in DOMAIN df2.rows :
            RightAlone(j) =>
              /\ Cardinality(OutOfRight(j)) = IF IncludesRight THEN 1 ELSE 0
              /\ \A x \in OutOfRight(j) : Tag(x) = "right_only"
      /\ cfg.join_type = "inner" => \A x \in DOMAIN diff.rows : Tag(x) = "both"
      /\ cfg.join_type = "left"  => \A x \in DOMAIN diff.rows : Tag(x) # "right_only"
      /\ cfg.join_type = "right" => \A x \in DOMAIN diff.rows : Tag(x) # "left_only"

\* an unmatched row on each side under the empty join type, both returned
C4_Witness ==
    /\ Called /\ cfg.join_type = ""
    /\ \E i \in DOMAIN df1.rows : LeftAlone(i) /\ OutOfLeft(i) # {}
    /\ \E j \in DOMAIN df2.rows : RightAlone(j) /\ OutOfRight(j) # {}

\* C5: the merge pairs left row i with right row j iff their key values
\* agree at every position; agreement across positions pairs nothing.
C5_CompositeKeyPairing ==
    (dpc \in {"merged", "returned"}) =>
      \A i \in DOMAIN df1.rows, j \in DOMAIN df2.rows :
         (\E x \in DOMAIN merged.rows : merged.rows[x].li = i /\ merged.rows[x].ri = j)
           <=> Counterparts(i, j)

\* a two-column key, one pair agreeing at every position and one pair
\* whose values only agree across positions, which is left unpaired
C5_Witness ==
    /\ dpc = "merged" /\ Len(cfg.join_key_web1) = 2
    /\ \E i \in DOMAIN df1.rows, j \in DOMAIN df2.rows :
          /\ df1.rows[i][cfg.join_key_web1[1]] = df2.rows[j][cfg.join_key_desktop[2]]
          /\ df1.rows[i][cfg.join_key_web1[2]] = df2.rows[j][cfg.join_key_desktop[1]]
          /\ ~ Counterparts(i, j)
          /\ \A x \in DOMAIN merged.rows : ~ (merged.rows[x].li = i /\ merged.rows[x].ri = j)
    /\ \E x \in DOMAIN merged.rows : merged.rows[x].cells["_merge"] = "both"

ScenarioCalled ==
    Called /\ df1 = ScenarioLeft /\ df2 = ScenarioRight /\ cfg = ScenarioCfg

\* C6: on the scenario of section 8 compute_diff returns two rows, id=2
\* tagged left_only and id=3 tagged right_only, and no id=1 row.
C6_Scenario ==
    ScenarioCalled =>
      /\ Len(diff.rows) = 2
      /\ \E x \in DOMAIN diff.rows :
            /\ diff.rows[x].cells["id"] = "2"
            /\ diff.rows[x].cells["name_web1"] = "B"
            /\ Tag(x) = "left_only"
      /\ \E x \in DOMAIN diff.rows :
            /\ diff.rows[x].cells["id"] = "3"
            /\ diff.rows[x].cells["name_desktop"] = "C"
            /\ Tag(x) = "right_only"
      /\ \A x \in DOMAIN diff.rows : diff.rows[x].cells["id"] # "1"

C6_Witness == ScenarioCalled /\ Len(merged.rows) = 3

(***************************************************************************)
(* Properties of the Run ledger (SpecLedger)                               *)
(***************************************************************************)
Terminal == {"success", "failed"}

\* the Run r is no longer worked on by a run_with_session request
Answered(r) == \A p \in Procs : inv[p].run # r

\* C7: the persisted status of a Run is "running" when the Run appears, its
\* only changes are from "running" to "success" or "failed", and the Run of
\* an answered run_with_session request that is still stored is terminal.
C7_StatusOnce ==
    /\ [](\A r \in DOMAIN runs : Answered(r) => runs[r].status \in Terminal)
    /\ [][\A r \in DOMAIN runs' :
             IF r \in DOMAIN runs
             THEN runs'[r].status # runs[r].status =>
                     runs[r].status = "running" /\ runs'[r].status \in Terminal
             ELSE runs'[r].status = "running"]_vars

\* run_edit has saved its message on a Run that the engine had made terminal
C7_Witness ==
    /\ resp.view = "run_edit"
    /\ resp.outcome = "redirect:runs_dashboard"
    /\ resp.run \in DOMAIN runs
    /\ runs[resp.run].status = "success"
    /\ runs[resp.run].message = "note"

\* C8: every answer of run_with_session for a Run it created is a redirect
\* (no exception leaves the view), and after the redirect of the failure
\* path the Run is stored as failed, with its message and finished_at.
C8_ErrorsRecorded ==
    (resp.view = "run_with_session" /\ resp.run # 0) =>
        /\ resp.outcome \in {"redirect:results", "redirect:upload"}
        /\ resp.outcome = "redirect:upload" =>
              /\ resp.run \in DOMAIN runs
              /\ runs[resp.run].status = "failed"
              /\ runs[resp.run].message # ""
              /\ runs[resp.run].finished_at # None

(***************************************************************************)
(* Properties of the requests of one session (Spec)                        *)
(***************************************************************************)
\* C9: a Run just created by run_with_session has a config whose projected
\* columns and key columns are all columns of the two tables read for it.
C9_NoRunFromBadConfig ==
    \A p \in Procs :
        inv[p].pc = "compute" =>
            /\ HasColumns(inv[p].df1, inv[p].cfg.columns_web1)
            /\ HasColumns(inv[p].df1, inv[p].cfg.join_key_web1)
            /\ HasColumns(inv[p].df2, inv[p].cfg.columns_desktop)
            /\ HasColumns(inv[p].df2, inv[p].cfg.join_key_desktop)

\* key lists that are empty on a side or differ in length
BadKeys(k1, k2) == Len(k1) = 0 \/ Len(k2) = 0 \/ Len(k1) # Len(k2)

\* a POST of the form f to choose_columns with header lines h1, h2
ChooseColumnsPost(h1, h2, f) ==
    \/ ChooseColumnsInvalid(SessionUser, h1, h2, f.c1, f.c2, f.k1, f.k2, f.jt)
    \/ ChooseColumnsKeysRefused(SessionUser, h1, h2, f.c1, f.c2, f.k1, f.k2, f.jt)
    \/ ChooseColumnsRaises(SessionUser, h1, h2, f.c1, f.c2, f.k1, f.k2, f.jt)
    \/ ChooseColumnsSave(SessionUser, h1, h2, f.c1, f.c2, f.k1, f.k2, f.jt)

\* a step that changes the configs, the config_id of the session or the Runs
ConfigOrRunStep ==
    \/ configs' # configs
    \/ session'[SessionUser].config_id # session[SessionUser].config_id
    \/ runs' # runs
    \/ runSeq' # runSeq

\* C10: every stored config has key lists of the same length, at least 1;
\* and a choose_columns POST whose key lists are empty on a side or differ
\* in length leaves the configs, the config_id of the session and the Runs
\* as they were: no step that changes one of them is such a POST.
C10_KeyLists ==
    /\ [](\A c \in DOMAIN configs :
             /\ Len(configs[c].join_key_web1) = Len(configs[c].join_key_desktop)
             /\ Len(configs[c].join_key_web1) >= 1)
    /\ [][ConfigOrRunStep =>
            \A h1 \in HeaderRows, h2 \in DesktopHeaderRows :
               \A f \in PostedForms(SessionUser) :
                  BadKeys(f.k1, f.k2) => ~ ChooseColumnsPost(h1, h2, f)]_vars

\* key lists of different lengths were refused in a session that has a config
C10_Witness ==
    /\ resp.view = "choose_columns"
    /\ resp.outcome = "render:key_errors"
    /\ configs # <<>>
    /\ session[SessionUser].config_id # None

\* the elements of seq at the positions where they occur first, in order
FirstSeen(seq) ==
    LET keep == {i \in DOMAIN seq : \A j \in 1..(i - 1) : seq[j] # seq[i]}
        at == Ascending(keep)
    IN  [x \in 1..Len(at) |-> seq[at[x]]]

NoRepeat(seq) == \A i, j \in DOMAIN seq : seq[i] = seq[j] => i = j

\* C11: the columns a config stores for a side are the chosen columns
\* followed by the side's key columns, first occurrences kept in order: in
\* every stored config each key column is among the side's columns and no
\* column is there twice, and the config a choose_columns POST saves has
\* exactly that column list on each side.
C11_StoredColumns ==
    /\ [](\A c \in DOMAIN configs :
             /\ SeqToSet(configs[c].join_key_web1) \subseteq SeqToSet(configs[c].columns_web1)
             /\ SeqToSet(configs[c].join_key_desktop) \subseteq SeqToSet(configs[c].columns_desktop)
             /\ NoRepeat(configs[c].columns_web1)
             /\ NoRepeat(configs[c].columns_desktop))
    /\ [][(resp'.view = "choose_columns" /\ resp'.outcome = "redirect:run_with_session") =>
            \A h1 \in HeaderRows, h2 \in DesktopHeaderRows :
               \A f \in PostedForms(SessionUser) :
                  ChooseColumnsSave(SessionUser, h1, h2, f.c1, f.c2, f.k1, f.k2, f.jt) =>
                     LET saved == configs'[session'[SessionUser].config_id[1]]
                     IN  /\ saved.columns_web1 = FirstSeen(f.c1 \o f.k1)
                         /\ saved.columns_desktop = FirstSeen(f.c2 \o f.k2)]_vars

\* a saved config whose key columns were not all ticked as columns and one
\* of which was: the columns are the ticked one, then the missing key
C11_Witness ==
    \E c \in DOMAIN configs :
        /\ configs[c].join_key_web1 = <<"id", "name">>
        /\ configs[c].columns_web1 = <<"name", "id">>

(***************************************************************************)
(* Properties of the helper functions (SpecPure)                           *)
(***************************************************************************)
Returns(f) == fn = f /\ ret # None

\* the positions of selected whose name is not in headers
MissingAt(selected, headers) ==
    {i \in DOMAIN selected : \A j \in DOMAIN headers : headers[j] # selected[i]}

\* C12: validate_columns(selected, headers) fails iff a selected column is
\* not in headers, and then the failure carries every such column, all of
\* them and in selection order; else it returns without error.
C12_ValidateColumns ==
    Returns("validate_columns") =>
        LET at == Ascending(MissingAt(args.selected, args.headers))
        IN  /\ (ret[1].error # "") <=> (at # <<>>)
            /\ ret[1].error # "" =>
                  /\ ret[1].error = "ValueError"
                  /\ ret[1].value = [x \in 1..Len(at) |-> args.selected[at[x]]]

\* a call that failed with two missing columns and a present one selected
\* between them
C12_Witness ==
    /\ Returns("validate_columns")
    /\ args.selected = <<"qty", "id", "name">>
    /\ args.headers = <<"id">>
    /\ ret[1].value = <<"qty", "name">>

(***************************************************************************)
(* More properties of the Run ledger (SpecLedger)                          *)
(***************************************************************************)
HasPreview(r) == \E x \in DOMAIN results : results[x].run = r

\* C13: every Run stored as success has finished_at set, export_csv and
\* export_xlsx not empty, both files written and its preview stored; and
\* the step that stores success finds the preview and both files there
\* already.
C13_SuccessIsComplete ==
    /\ [](\A r \in DOMAIN runs :
             runs[r].status = "success" =>
                /\ runs[r].finished_at # None
                /\ runs[r].export_csv # "" /\ runs[r].export_csv \in files
                /\ runs[r].export_xlsx # "" /\ runs[r].export_xlsx \in files
                /\ HasPreview(r))
    /\ [][\A r \in DOMAIN runs' :
             (runs'[r].status = "success" /\ r \in DOMAIN runs /\ runs[r].status # "success") =>
                /\ HasPreview(r)
                /\ runs'[r].export_csv \in files
                /\ runs'[r].export_xlsx \in files]_vars

\* a Run stored as success next to a failed Run whose first export file
\* was written
C13_Witness ==
    \E r, q \in DOMAIN runs :
        /\ runs[r].status = "success"
        /\ runs[q].status = "failed" /\ ExportUrl(q, ".csv") \in files

KeptChars(text) ==
    SelectSeq(text, LAMBDA c : ~(c <= 8 \/ c = 11 \/ c = 12 \/ (14 <= c /\ c <= 31)))

Sanitized == fn = "_sanitize_for_export" /\ ret # None /\ ret[1].error = ""

\* the input columns other than _merge, in order
NotMerge(columns) ==
    SelectSeq([j \in 1..Len(columns) |-> j], LAMBDA j : columns[j] # MergeName)

C15_RestHolds ==
    Sanitized =>
        LET out == ret[1].value
            src == NotMerge(args.df.columns)
        IN  /\ Len(out.columns) = Len(src)
            /\ Len(out.rows) = Len(args.df.rows)
            /\ \A j \in 1..Len(src) :
                  /\ out.columns[j] = KeptChars(args.df.columns[src[j]])
                  /\ \A x \in 1..Len(out.rows) :
                        out.rows[x][j] =
                           IF args.df.rows[x][src[j]] = NA
                           THEN <<>>
                           ELSE KeptChars(args.df.rows[x][src[j]])

\* the occurrences of a character code in a text
Occurrences(text, c) == Cardinality({i \in 1..Len(text) : text[i] = c})

\* C16: sniff_sep returns, among tab, semicolon and comma, the delimiter with
\* the highest count in the sample; with equal counts tab wins over
\* semicolon and semicolon over comma.
C16_SniffSep ==
    Returns("sniff_sep") =>
        LET t == Occurrences(args.sample, 9)
            s == Occurrences(args.sample, 59)
            c == Occurrences(args.sample, 44)
        IN  ret[1].value =
               IF t >= s /\ t >= c THEN 9
               ELSE IF s >= c THEN 59 ELSE 44

\* what sniff_sep does: a returned delimiter has the highest count, and with
\* equal counts semicolon wins over comma and comma over tab
C16_CodeOrder ==
    Returns("sniff_sep") =>
        LET t == Occurrences(args.sample, 9)
            s == Occurrences(args.sample, 59)
            c == Occurrences(args.sample, 44)
        IN  ret[1].value =
               IF s >= t /\ s >= c THEN 59
               ELSE IF c >= t THEN 44 ELSE 9

\* the candidates in the order of the claim
C17_Order == <<"utf-8-sig", "utf-8", "cp1252", "latin1", "mac_roman">>

\* C17: the bytes of a CSV file are decoded with the first of utf-8-sig,
\* utf-8, cp1252, latin1, mac_roman, in that order, that decodes them without
\* error; the decode error is raised exactly when every candidate fails; bytes
\* that are not UTF-8 but are valid cp1252 are decoded with cp1252, without
\* error.
C17_FirstCandidate ==
    Returns("decode") =>
        /\ ret[1].error = "" =>
              \E k \in 1..Len(C17_Order) :
                 /\ ret[1].value.encoding = C17_Order[k]
                 /\ Decodes(C17_Order[k], args.raw)
                 /\ ret[1].value.text = Decoded(C17_Order[k], args.raw)
                 /\ \A j \in 1..(k - 1) : ~Decodes(C17_Order[j], args.raw)
        /\ ret[1].error # "" <=> \A k \in 1..Len(C17_Order) : ~Decodes(C17_Order[k], args.raw)
        /\ ret[1].error \in {"", "UnicodeDecodeError"}
        /\ ~Utf8Valid(args.raw, 1) /\ Decodes("cp1252", args.raw) =>
              ret[1].error = "" /\ ret[1].value.encoding = "cp1252"

\* the byte E9 alone: not UTF-8, decoded with cp1252 as U+00E9
C17_Witness ==
    /\ Returns("decode")
    /\ args.raw = <<65, 233>>
    /\ ret[1].error = ""
    /\ ret[1].value = [encoding |-> "cp1252", text |-> <<65, 233>>]

\* bytes that cp1252 refuses are decoded with latin1
C17_WitnessLatin1 ==
    /\ Returns("decode")
    /\ 129 \in SeqToSet(args.raw)
    /\ ret[1].value.encoding = "latin1"

\* the preview records of the Runs other than r
OtherPreviews(res, r) == SelectSeq(res, LAMBDA x : x.run # r)

\* C18: a step of a run_with_session invocation creates a Run that did not
\* exist, or updates the Run of the invocation and adds its preview: it
\* removes no Run, changes no field of another Run and no preview of another
\* Run, whatever the other invocations, edits and deletions do in between; a
\* failed Run stays as it was when the comparison is run again, in a new Run.
C18_OwnRunOnly ==
    [][\A p \in Procs :
          inv'[p] # inv[p] =>
             LET own == IF inv[p].pc = "idle" THEN inv'[p].run ELSE inv[p].run
             IN  /\ inv[p].pc = "idle" => own \notin DOMAIN runs /\ own > runSeq
                 /\ inv[p].pc = "idle" => own \in DOMAIN runs' /\ runs'[own].status = "running"
                 /\ \A q \in Procs : inv[q].pc # "idle" /\ q # p => inv[q].run # own
                 /\ \A r \in DOMAIN runs :
                       r # own => r \in DOMAIN runs' /\ runs'[r] = runs[r]
                 /\ DOMAIN runs' \subseteq DOMAIN runs \cup {own}
                 /\ OtherPreviews(results', own) = OtherPreviews(results, own)]_vars

\* the comparison run again after a failure: the failed Run with its message,
\* and the new Run of the same user under way
C18_Witness ==
    \E r \in DOMAIN runs, p \in Procs :
        /\ runs[r].status = "failed" /\ runs[r].message = "OSError"
        /\ resp = Response("run_with_session", inv[p].user, "redirect:upload", r)
        /\ inv[p].pc = "save"
        /\ inv[p].run > r
        /\ inv[p].run \in DOMAIN runs
        /\ \A q \in Procs : q # p => inv[q].pc = "idle"

(***************************************************************************)
(* Properties of the results page (SpecResults)                            *)
(***************************************************************************)
ResultsShown(r) == resp.view = "results" /\ resp.run = r /\ r \in DOMAIN runs

\* C19: the export links of the results page of a successful Run are the
\* export_csv and export_xlsx of that Run, whatever other comparisons were
\* run or looked at in the session before or after it.
C19_OwnExportLinks ==
    \A r \in DOMAIN runs :
        ResultsShown(r) /\ runs[r].status = "success" =>
            resp.exports = Some([csv |-> runs[r].export_csv, xlsx |-> runs[r].export_xlsx])

\* the page of a successful Run with the links the code gives it when the
\* Run is the last one exported in the session of the user
C19_OwnLinksCase ==
    \E r \in DOMAIN runs :
        /\ ResultsShown(r) /\ runs[r].status = "success"
        /\ resp.exports = Some([csv |-> runs[r].export_csv, xlsx |-> runs[r].export_xlsx])

\* C20: the sanitized diff table written with to_csv and read back as CSV
\* with header row 0 has the same set of columns and the same number of rows
\* as the table written.
C20_RoundTrip ==
    Returns("to_csv") =>
        /\ ret[1].error = ""
        /\ SeqToSet(ret[1].value.columns) = SeqToSet(args.df.columns)
        /\ ret[1].value.nrows = Len(args.df.rows)

\* a table that comes back with its columns and its rows
C20_RoundTripCase ==
    /\ Returns("to_csv")
    /\ ret[1].error = ""
    /\ Len(args.df.rows) > 0 /\ Len(args.df.columns) > 1
    /\ SeqToSet(ret[1].value.columns) = SeqToSet(args.df.columns)
    /\ ret[1].value.nrows = Len(args.df.rows)

(***************************************************************************)
(* More properties of compute_diff (SpecDiff)                              *)
(***************************************************************************)
\* a compared column absent on both sides of the pair
BothAbsent(i, j) == \E c \in Compared : df1.rows[i][c] = NaN /\ df2.rows[j][c] = NaN

\* C21: a matched pair whose cells in a compared column are absent on both
\* sides is equal in that column: when its other compared columns are equal
\* too, the pair is not in the output.
C21_AbsentEqualsAbsent ==
    Called =>
        \A i \in DOMAIN df1.rows, j \in DOMAIN df2.rows :
            (Counterparts(i, j) /\ BothAbsent(i, j) /\ SameValues(i, j)) => OutRows(i, j) = {}

(***************************************************************************)
(* Properties of the failure path of run_with_session                      *)
(***************************************************************************)
\* C22: a Run stored as failed has no preview record; among the Runs that
\* ended, the preview exists exactly for those stored as success.
C22_NoPartialApply ==
    \A r \in DOMAIN runs :
        /\ runs[r].status = "failed" => ~HasPreview(r)
        /\ runs[r].status \in Terminal => (HasPreview(r) <=> runs[r].status = "success")

(***************************************************************************)
(* Property of the column names of compute_diff (SpecPure)                 *)
(***************************************************************************)
\* the names projected on both sides that are a key on neither
CommonNonKey(c) ==
    (SeqToSet(c.columns_web1) \cap SeqToSet(c.columns_desktop))
       \ (SeqToSet(c.join_key_web1) \cup SeqToSet(c.join_key_desktop))

\* C23: the column names of what compute_diff returns are pairwise distinct;
\* a non-key name projected on both sides is emitted as <name>_web1 and
\* <name>_desktop, and no other emitted column has one of these names.
C23_DistinctNames ==
    (Returns("compute_diff") /\ ret[1].error = "") =>
        LET names == ret[1].value
        IN  /\ \A i, j \in 1..Len(names) : names[i] = names[j] => i = j
            /\ \A n \in CommonNonKey(args) :
                  /\ Cardinality({i \in 1..Len(names) : names[i] = n \o "_web1"}) = 1
                  /\ Cardinality({i \in 1..Len(names) : names[i] = n \o "_desktop"}) = 1
                  /\ n \notin SeqToSet(names)

\* C24: the failure path of run_with_session changes, of the stored Run,
\* only status, message and finished_at; total_rows, diff_rows, export_csv
\* and export_xlsx of a Run stored as failed are those of its creation (0,
\* 0, empty, empty), even when they were assigned in memory before the error.
C24_FailureWritesThreeFields ==
    /\ [](\A r \in DOMAIN runs :
             runs[r].status = "failed" =>
                /\ runs[r].total_rows = 0 /\ runs[r].diff_rows = 0
                /\ runs[r].export_csv = "" /\ runs[r].export_xlsx = "")
    /\ [][\A p \in Procs :
             (inv[p].pc = "except" /\ inv'[p].pc = "idle" /\ inv[p].run \in DOMAIN runs) =>
                /\ inv[p].run \in DOMAIN runs'
                /\ runs'[inv[p].run] =
                      [runs[inv[p].run] EXCEPT !.status = "failed",
                                               !.message = runs'[inv[p].run].message,
                                               !.finished_at = runs'[inv[p].run].finished_at]
                /\ runs'[inv[p].run].message = inv[p].err
                /\ runs'[inv[p].run].finished_at # None]_vars

\* a Run failed at the export: its counts were assigned in memory and its
\* preview of at least one row is stored, its stored counts are 0
C24_Witness ==
    \E r \in DOMAIN runs :
        /\ runs[r].status = "failed" /\ runs[r].message = "OSError"
        /\ runs[r].total_rows = 0 /\ runs[r].diff_rows = 0
        /\ \E x \in DOMAIN results : results[x].run = r /\ Len(results[x].payload) > 0

(***************************************************************************)
(* Properties of refused run_with_session requests (SpecIngest)            *)
(***************************************************************************)
LacksParams(u) == session[u].upload_context = None \/ session[u].config_id = None
Ingestible(d) == datasets[d].exists /\ datasets[d].ext \in {".csv", ".xlsx", ".xls"}
RunsOf(u) == {r \in DOMAIN runs : configs[runs[r].config].owner = u}
Refused(u) ==
    \/ LacksParams(u)
    \/ ~Ingestible(session[u].upload_context[1].dataset_web1_id)
    \/ ~Ingestible(session[u].upload_context[1].dataset_desktop_id)

\* C25: a run_with_session request of a user whose session lacks the upload
\* context or the config, or one of whose two datasets cannot be ingested (file
\* absent from the storage, extension that is none of .csv, .xls, .xlsx),
\* creates no Run and no preview and modifies no Run: such a user never has a
\* Run, and the step that answers the request leaves the Runs, the previews
\* and the Run ids as they were.
C25_RefusedCreatesNothing ==
    /\ [](\A u \in Users : Refused(u) =>
             /\ RunsOf(u) = {}
             /\ \A p \in Procs : inv[p].pc # "idle" => inv[p].user # u)
    /\ [][\A u \in Users :
             (Refused(u) /\ resp' # resp /\ resp'.view = "run_with_session" /\ resp'.user = u) =>
                /\ resp'.outcome \in {"redirect:upload", "404"}
                /\ runs' = runs /\ results' = results /\ runSeq' = runSeq
                /\ files' = files /\ inv' = inv]_vars

\* C25 happens: with a Run of u1 stored and its preview, a request of u2, whose
\* web1 file is absent from the storage, has been answered by the redirect
C25_Witness ==
    /\ resp = Response("run_with_session", "u2", "redirect:upload", 0)
    /\ ~LacksParams("u2")
    /\ ~datasets[session["u2"].upload_context[1].dataset_web1_id].exists
    /\ \E r \in DOMAIN runs : \E x \in DOMAIN results : results[x].run = r

(***************************************************************************)
(* Properties of the management requests (SpecManage)                      *)
(***************************************************************************)
\* C26: the step that saves a run_edit POST changes the message of the Run it
\* loaded and nothing else: the stored status, counts, finished_at and export
\* locations of that Run are after the step what they were before it, also
\* when the Run was loaded while running and has become terminal since; the
\* other Runs, the previews and the files are left alone; and the steps that
\* load the Run or answer a GET of run_edit change nothing stored.
C26_EditWritesMessageOnly ==
    [][/\ (ed.pc = "loaded" /\ ed'.pc = "idle" /\ ed.run \in DOMAIN runs) =>
             /\ runs' = [runs EXCEPT ![ed.run].message = Strip(ed.msg)]
             /\ results' = results /\ files' = files /\ runSeq' = runSeq
       /\ (ed.pc = "loaded" /\ ed'.pc = "idle" /\ ed.run \notin DOMAIN runs) =>
             runs' = runs /\ results' = results /\ files' = files
       /\ (ed.pc = "idle" /\ ed'.pc = "loaded") => dbVars' = dbVars
       /\ (resp' # resp /\ resp'.view = "run_edit" /\ resp'.outcome = "render:run_edit") =>
             dbVars' = dbVars /\ ed' = ed]_vars

\* C26 happens: a Run that the engine stored as failed, with finished_at and
\* no count, carries the message of a run_edit saved after that
C26_Witness ==
    /\ resp.view = "run_edit" /\ resp.outcome = "redirect:runs_dashboard"
    /\ resp.run \in DOMAIN runs
    /\ runs[resp.run].status = "failed"
    /\ runs[resp.run].finished_at # None
    /\ runs[resp.run].message = "note"

\* C27: a message that run_edit saved on a Run is the stored message of that
\* Run once the Run is terminal: the step that makes a running Run terminal
\* keeps the message the Run carries (a running Run has a message only from
\* run_edit), and the message of a terminal Run changes at a run_edit save
\* of that Run only.
C27_EditedMessageKept ==
    [][\A r \in DOMAIN runs \cap DOMAIN runs' :
          /\ (runs[r].status = "running" /\ runs[r].message # ""
                 /\ runs'[r].status \in Terminal) =>
                runs'[r].message = runs[r].message
          /\ (runs[r].status \in Terminal /\ runs'[r].message # runs[r].message) =>
                ed.pc = "loaded" /\ ed.run = r /\ ed'.pc = "idle"]_vars

\* the Run r is one of a config of user u
Own(u, r) == r \in DOMAIN runs /\ configs[runs[r].config].owner = u
PreviewsOf(res, r) == SelectSeq(res, LAMBDA x : x.run = r)

\* C28: the results, run_edit, run_delete and run_bulk_delete requests of a
\* user who is not staff read, modify and delete Runs of that user's configs
\* only: a Run is removed only by a run_delete or run_bulk_delete POST, of a
\* staff user or of the owner of its config; the Runs that stay keep their
\* fields, but for the message at a run_edit save of a staff user or of
\* the owner, and keep their previews; a page or a redirect naming a Run is
\* answered to a non-staff user only for a Run of that user; and a request
\* to run_delete or run_bulk_delete that is not a POST removes nothing.
C28_OwnRunsOnly ==
    [][/\ \A r \in DOMAIN runs \ DOMAIN runs' :
             /\ resp'.view \in {"run_delete", "run_bulk_delete"}
             /\ resp'.outcome = "redirect:runs_dashboard"
             /\ resp'.user \in Staff \/ Own(resp'.user, r)
       /\ \A r \in DOMAIN runs \cap DOMAIN runs' :
             /\ runs'[r].message # runs[r].message /\ ed.pc = "loaded" /\ ed.run = r =>
                   ed.user \in Staff \/ Own(ed.user, r)
             /\ [runs'[r] EXCEPT !.message = ""] # [runs[r] EXCEPT !.message = ""] =>
                   \E p \in Procs : inv[p].run = r
             /\ \A x \in DOMAIN PreviewsOf(results, r) :
                   PreviewsOf(results', r)[x] = PreviewsOf(results, r)[x]
       /\ (resp' # resp /\ resp'.view \in {"results", "run_edit", "run_delete"}
              /\ resp'.outcome \notin {"404", "500:DatabaseError"}) =>
             resp'.user \in Staff \/ Own(resp'.user, resp'.run)
       /\ (resp' # resp /\ resp'.outcome \in {"render:run_confirm_delete",
                                              "redirect:runs_dashboard:not_post"}) =>
             dbVars' = dbVars]_vars

\* C28 happens: both Runs stored are of configs of u2, with their previews,
\* and a run_bulk_delete POST of u1, who is not staff, with ids selected, has
\* deleted none of them
C28_Witness ==
    /\ resp.view = "run_bulk_delete" /\ resp.user = "u1"
    /\ resp.outcome = "redirect:runs_dashboard" /\ resp.count = 0
    /\ "u1" \notin Staff
    /\ DOMAIN runs = 1..MaxRuns
    /\ \A r \in DOMAIN runs : Own("u2", r) /\ HasPreview(r)

\* C29: the config and the two datasets of a Run are of one user, and that
\* user is the one whose run_with_session request created the Run: the step
\* that creates a Run is a request of the owner of the three objects, also
\* when the session of the user names a dataset that is no longer hers.
C29_OneOwner ==
    /\ [](\A r \in DOMAIN runs :
             /\ datasets[runs[r].dataset_web1].owner = configs[runs[r].config].owner
             /\ datasets[runs[r].dataset_desktop].owner = configs[runs[r].config].owner)
    /\ [][\A r \in DOMAIN runs' \ DOMAIN runs :
             \E p \in Procs :
                /\ inv[p].pc = "idle" /\ inv'[p].run = r
                /\ configs[runs'[r].config].owner = inv'[p].user
                /\ datasets[runs'[r].dataset_web1].owner = inv'[p].user
                /\ datasets[runs'[r].dataset_desktop].owner = inv'[p].user
                /\ runs'[r].config = session[inv'[p].user].config_id[1]]_vars

\* C29 happens: the session of u2 names a web1 dataset that is of u1, its
\* request has been answered 404, and the Run stored is one of u1
C29_Witness ==
    /\ resp = Response("run_with_session", "u2", "404", 0)
    /\ datasets[session["u2"].upload_context[1].dataset_web1_id].owner = "u1"
    /\ \E r \in DOMAIN runs : configs[runs[r].config].owner = "u1"
    /\ \A r \in DOMAIN runs : configs[runs[r].config].owner # "u2"

\* C30: every preview record references a stored Run and no two preview
\* records reference the same Run, whatever run_delete and run_bulk_delete
\* remove between the steps of the comparisons.
C30_OnePreviewPerRun ==
    /\ \A x \in DOMAIN results : results[x].run \in DOMAIN runs
    /\ \A x, y \in DOMAIN results : results[x].run = results[y].run => x = y

\* C30 happens: one run_bulk_delete POST has deleted two Runs that both had
\* got to their export, hence had their previews, and no preview is left
C30_Witness ==
    /\ resp.view = "run_bulk_delete" /\ resp.count = 2
    /\ DOMAIN runs = {} /\ results = <<>>
    /\ {ExportUrl(1, ".csv"), ExportUrl(2, ".csv")} \subseteq files

=============================================================================
